---- MODULE Spec2Model ----
(***************************************************************************)
(* Verification model of SoulSync's core.                                  *)
(*                                                                         *)
(* Part 1: PlexScanManager (src/core/plex_scan_manager.py), the debounced  *)
(* library-scan controller.  Part 2, at the end: SoulseekClient.search     *)
(* (src/core/soulseek_client.py), the polling search session.              *)
(*                                                                         *)
(* Every `with self._lock:` block is one atomic step guarded by the lock   *)
(* being free (threading.Lock is not reentrant); the blocks of one method  *)
(* are separate steps wherever the code releases the lock between them, so *)
(* other threads interleave exactly where they can in the program.         *)
(*                                                                         *)
(* `threads` is the bag of the threads that are inside the controller's    *)
(* code or will enter it: every threading.Timer (a thread of its own: it   *)
(* waits, cancellable; its wait ends, after which cancel() has no effect;  *)
(* then it runs its function) and every client inside force_scan.  The     *)
(* other public methods are a single locked block: a client is in and out  *)
(* in one step.  Threads have no names: self._timer refers to the thread   *)
(* whose `ref` is TRUE.                                                    *)
(*                                                                         *)
(* Times are kept relative to the present: time.time() is Now in every     *)
(* state, and when the clock advances by d every stored time moves back by *)
(* d and every timer has d less to wait.  The program only ever reads      *)
(* differences of times.                                                   *)
(***************************************************************************)
EXTENDS Integers, Sequences, FiniteSets, Bags, TLC

(***************************************************************************)
(* Bounds of the model.                                                    *)
(***************************************************************************)
MaxCalls == 3      \* calls of public methods made in one behaviour
MaxScans == 2      \* scans started in one behaviour
AgeCap   == 60     \* during a scan the clock leaps from this age to the ceiling

(***************************************************************************)
(* Program constants.                                                      *)
(***************************************************************************)
Delay            == 60     \* delay_seconds, the debounce delay
InitialPollDelay == 15     \* grace period before the first status poll
PollInterval     == 30     \* delay between two status polls
MaxScanTime      == 1800   \* _max_scan_time

NoTime == 1                \* None as a time (no stored time is in the future)
Now    == 0                \* time.time()

\* The clock moves by one poll interval or by one whole scan ceiling.
TickSteps == {PollInterval, MaxScanTime}

\* The completion callbacks clients register.
Callbacks == {"cbRaise", "cbReenter"}

\* What each of them does when called: raise, or call request_scan.
CallbackBehaviour(cb) == IF cb = "cbRaise" THEN "raise" ELSE "request_scan"

VARIABLES
  scan_in_progress,      \* self._scan_in_progress
  downloads_during_scan, \* self._downloads_during_scan
  scan_start_time,       \* self._scan_start_time
  callbacks,             \* self._scan_completion_callbacks (a list)
  lock,                  \* self._lock is held
  threads,               \* the threads, each a record Thread(...)
  callsLeft,             \* public method calls the clients still make
  scansLeft,             \* scans that may still start
  triggerCount,          \* calls of plex_client.trigger_library_scan so far
  lastArm,               \* time of the unserved request_scan that armed last
  burstCount,            \* bursts of arming requests begun so far
  reqInScan,             \* a request_scan arrived during the current scan
  owed,                  \* a completed scan had such a request
  disturbed,             \* a client or callback called in after that completion
  followups,             \* trigger calls since that completion
  search_pc,             \* where the search() call is
  timeout,               \* search(): the timeout argument, in seconds
  progress_callback,     \* search(): the progress_callback argument
  poll_count,            \* search(): the loop variable
  all_responses,         \* search(): the responses seen so far
  all_tracks,            \* search(): the cumulative track list
  all_albums,            \* search(): the cumulative album list
  backend,               \* number of responses the backend holds for the search
  fetches,               \* GETs of the response list made so far
  batches,               \* the lists given to _process_search_responses so far
  delivered,             \* the progress callback's invocations, arguments as passed
  result,                \* what search() returned
  stop_requested,        \* SearchThread._stop_requested of the caller
  second,                \* a second search() call on the same client
  fn,                    \* the function applied on its own, "none" before
  args,                  \* the arguments it is applied to
  value                  \* what it returned

ctl   == <<scan_in_progress, downloads_during_scan, scan_start_time,
           callbacks, lock>>
quota == <<callsLeft, scansLeft>>
hist  == <<triggerCount, lastArm, burstCount, reqInScan, owed, disturbed,
           followups>>
plex  == <<ctl, threads, quota, hist>>
srch  == <<search_pc, timeout, progress_callback, poll_count, all_responses,
           all_tracks, all_albums, backend, fetches, batches, delivered,
           result, stop_requested, second>>
pure  == <<fn, args, value>>
vars  == <<plex, srch, pure>>

\* No search() call has been made.
NoSearch ==
  /\ search_pc = "idle"
  /\ timeout = 0
  /\ progress_callback = "none"
  /\ poll_count = 0
  /\ all_responses = <<>>
  /\ all_tracks = <<>>
  /\ all_albums = <<>>
  /\ backend = 0
  /\ fetches = 0
  /\ batches = <<>>
  /\ delivered = <<>>
  /\ result = <<>>
  /\ stop_requested = FALSE
  /\ second = [search_id |-> 2, search_pc |-> "idle", timeout |-> 0,
               progress_callback |-> "none", poll_count |-> 0,
               all_responses |-> <<>>, all_tracks |-> <<>>,
               all_albums |-> <<>>, backend |-> 0, fetches |-> 0,
               batches |-> <<>>, delivered |-> <<>>, result |-> <<>>]

\* No function has been applied on its own.
NothingApplied ==
  /\ fn = "none"
  /\ args = <<>>
  /\ value = <<>>

(***************************************************************************)
(* Threads.                                                                *)
(*   pc    where the thread is:                                            *)
(*         "d_armed"  a debounce Timer waiting                             *)
(*         "exec"     a Timer about to enter the locked block of           *)
(*                    _execute_scan                                        *)
(*         "forced"   a client inside force_scan about to do the same      *)
(*         "trigger"  about to call plex_client.trigger_library_scan       *)
(*         "reset"    about to enter _reset_scan_state                     *)
(*         "p_armed"  a poll Timer waiting                                 *)
(*         "poll"     about to enter the locked block of _poll_scan_status *)
(*         "query"    about to call plex_client.is_library_scanning        *)
(*         "sc"       about to enter the locked block of _scan_completed   *)
(*         "cbcopy"   about to enter _call_completion_callbacks            *)
(*         "cbrun"    about to call callbacks[idx]                         *)
(*         "after_cb" past the loop, at `if downloads_during_scan:`        *)
(*         "done"     a Timer that ended and that self._timer still names  *)
(*   wait  time left until an armed Timer's wait ends                      *)
(*   ref   self._timer is this Timer                                       *)
(*   holds the thread holds self._lock across steps                        *)
(*   dds, cbs, idx  the locals downloads_during_scan of _scan_completed    *)
(*         and callbacks of _call_completion_callbacks, and the position   *)
(*         of its loop                                                     *)
(*   ran   the callbacks the thread has called (history)                   *)
(*   site  where _poll_scan_status called _scan_completed from: "timeout"  *)
(*         (line 141), "finished" (line 156) or "except" (line 161); kept  *)
(*         until the thread is inside _call_completion_callbacks           *)
(*   cancelled  the method that called cancel() on this Timer after its    *)
(*         wait was over ("no" if none did): Timer.finished is set, too    *)
(*         late to stop the function                                       *)
(***************************************************************************)
Thread(p, w) ==
  [pc |-> p, wait |-> w, ref |-> FALSE, holds |-> FALSE, dds |-> FALSE,
   cbs |-> <<>>, idx |-> 0, ran |-> <<>>, site |-> "", cancelled |-> "no"]

Live == BagToSet(threads)

Put(B, r)      == B (+) SetToBag({r})
Take(B, r)     == B (-) SetToBag({r})
Swap(B, r, r2) == Put(Take(B, r), r2)

\* The thread self._timer refers to, as a set: empty when it is None.
Referenced(B) == {r \in BagToSet(B) : r.ref}

\* A cancel() that stops nothing.
NoCancel(B, who) == B

\* self._timer.cancel(), called by the method `who`, when self._timer is
\* set: a Timer still waiting never runs its function; one whose wait is
\* over runs it all the same.
Cancel(B, who) ==
  IF \E r \in Referenced(B) : r.pc = "d_armed"
  THEN LET h == CHOOSE r \in Referenced(B) : TRUE
       IN Swap(B, h, [h EXCEPT !.pc = "done", !.wait = 0])
  ELSE IF \E r \in Referenced(B) : r.pc = "exec"
  THEN LET h == CHOOSE r \in Referenced(B) : TRUE
       IN Swap(B, h, [h EXCEPT !.cancelled = who])
  ELSE B

\* A handle that is never cleared.
Kept(B) == B

\* self._timer stops referring to its Timer (it is set to None or to a new
\* Timer).  The Timer itself goes on as it was.
Forget(B) ==
  IF Referenced(B) = {} THEN B
  ELSE LET h == CHOOSE r \in Referenced(B) : TRUE
       IN IF h.pc = "done" THEN Take(B, h)
          ELSE Swap(B, h, [h EXCEPT !.ref = FALSE])

\* The function of thread r returns and the thread ends.
Ended(B, r) ==
  IF r.ref THEN Swap(B, r, [Thread("done", 0) EXCEPT !.ref = TRUE])
  ELSE Take(B, r)

\* Python truthiness of self._scan_start_time: None is falsy, and a value
\* of time.time() is never 0.0.
Truthy(x) == x # NoTime

Max(a, b) == IF a >= b THEN a ELSE b

\* A stored time after the clock advanced by d.  Times older than `oldest`
\* are kept as `oldest`: the program tells no two of them apart.
Earlier(x, d, oldest) == IF x = NoTime THEN NoTime ELSE Max(x - d, oldest)

\* The bag B with every thread's wait shortened by d.
RECURSIVE Waited(_, _, _)
Waited(B, S, d) ==
  IF S = {} THEN EmptyBag
  ELSE LET r == CHOOSE x \in S : TRUE
           n == CopiesIn(r, B)
       IN Waited(B, S \ {r}, d)
            (+) [x \in {[r EXCEPT !.wait = Max(r.wait - d, 0)]} |-> n]

\* The dict get_status returns.
get_status ==
  [scan_in_progress |-> scan_in_progress,
   downloads_during_scan |-> downloads_during_scan,
   timer_active |-> Referenced(threads) # {},
   delay_seconds |-> Delay]

NoScan ==
  /\ scan_in_progress = FALSE
  /\ downloads_during_scan = FALSE
  /\ scan_start_time = NoTime
  /\ callbacks = <<>>
  /\ lock = FALSE
  /\ threads = EmptyBag
  /\ callsLeft = MaxCalls
  /\ scansLeft = MaxScans
  /\ triggerCount = 0
  /\ lastArm = NoTime
  /\ burstCount = 0
  /\ reqInScan = FALSE
  /\ owed = FALSE
  /\ disturbed = FALSE
  /\ followups = 0

Init ==
  /\ NoScan
  /\ NoSearch
  /\ NothingApplied

(***************************************************************************)
(* request_scan.  B is the bag of threads in which the calling thread, if  *)
(* it is one of them, has already moved on.  It is called by clients, by   *)
(* _scan_completed (the follow-up) and by callbacks that re-enter.         *)
(***************************************************************************)
\* request_scan without the test of _scan_in_progress (lines 49-53): it
\* re-arms the debounce Timer whatever the state.
request_scan_unaware(B) ==
  /\ ~lock
  /\ threads' = Put(Forget(Cancel(B, "request_scan")),
                    [Thread("d_armed", Delay) EXCEPT !.ref = TRUE])
  /\ lastArm' = Now
  /\ burstCount' = IF lastArm = NoTime THEN burstCount + 1 ELSE burstCount
  /\ UNCHANGED <<downloads_during_scan, reqInScan>>
  /\ UNCHANGED <<scan_in_progress, scan_start_time, callbacks, lock,
                 scansLeft, triggerCount>>

request_scan(B) ==
  /\ ~lock
  /\ IF scan_in_progress
     THEN /\ downloads_during_scan' = TRUE
          /\ reqInScan' = TRUE
          /\ threads' = B
          /\ UNCHANGED <<lastArm, burstCount>>
     ELSE /\ threads' = Put(Forget(Cancel(B, "request_scan")),
                            [Thread("d_armed", Delay) EXCEPT !.ref = TRUE])
          /\ lastArm' = Now
          /\ burstCount' = IF lastArm = NoTime THEN burstCount + 1 ELSE burstCount
          /\ UNCHANGED <<downloads_during_scan, reqInScan>>
  /\ UNCHANGED <<scan_in_progress, scan_start_time, callbacks, lock,
                 scansLeft, triggerCount>>

\* A client calls request_scan.
RequestScan ==
  /\ callsLeft > 0
  /\ callsLeft' = callsLeft - 1
  /\ request_scan(threads)
  /\ disturbed' = owed
  /\ UNCHANGED <<owed, followups>>
  /\ UNCHANGED <<srch, pure>>

\* callback in self._scan_completion_callbacks
Registered(list, cb) == \E i \in 1..Len(list) : list[i] = cb

\* The registry after an append that does not look for cb first.
AddedUnchecked(list, cb) == Append(list, cb)

\* The registry after add_scan_completion_callback(cb).
Added(list, cb) == IF ~Registered(list, cb) THEN Append(list, cb) ELSE list

\* A client calls add_scan_completion_callback(cb).
AddCallback(cb) ==
  /\ callsLeft > 0
  /\ callsLeft' = callsLeft - 1
  /\ ~lock
  /\ callbacks' = Added(callbacks, cb)
  /\ UNCHANGED <<scan_in_progress, downloads_during_scan, scan_start_time,
                 lock, threads, scansLeft, hist>>
  /\ UNCHANGED <<srch, pure>>

\* list.remove(cb): the list without its first cb.
Remove(list, cb) ==
  LET i == CHOOSE k \in 1..Len(list) :
             list[k] = cb /\ \A j \in 1..(k - 1) : list[j] # cb
  IN SubSeq(list, 1, i - 1) \o SubSeq(list, i + 1, Len(list))

\* The registry after remove_scan_completion_callback(cb).
Removed(list, cb) == IF Registered(list, cb) THEN Remove(list, cb) ELSE list

\* A client calls remove_scan_completion_callback(cb).
RemoveCallback(cb) ==
  /\ callsLeft > 0
  /\ callsLeft' = callsLeft - 1
  /\ ~lock
  /\ callbacks' = Removed(callbacks, cb)
  /\ UNCHANGED <<scan_in_progress, downloads_during_scan, scan_start_time,
                 lock, threads, scansLeft, hist>>
  /\ UNCHANGED <<srch, pure>>

\* A client calls get_status: it reads under the lock and changes nothing.
GetStatus ==
  /\ ~lock
  /\ UNCHANGED vars

\* A client calls shutdown.
Shutdown ==
  /\ callsLeft > 0
  /\ callsLeft' = callsLeft - 1
  /\ ~lock
  /\ threads' = Forget(Cancel(threads, "shutdown"))
  /\ disturbed' = owed
  /\ UNCHANGED <<ctl, scansLeft, triggerCount, lastArm, burstCount, reqInScan,
                 owed, followups>>
  /\ UNCHANGED <<srch, pure>>

\* force_scan that, finding a scan in progress, queues a follow-up.
ForceScanQueues ==
  /\ callsLeft > 0
  /\ callsLeft' = callsLeft - 1
  /\ ~lock
  /\ threads' = IF scan_in_progress
                THEN Forget(Cancel(threads, "force_scan"))
                ELSE Put(Forget(Cancel(threads, "force_scan")),
                         Thread("forced", 0))
  /\ downloads_during_scan' = (downloads_during_scan \/ scan_in_progress)
  /\ disturbed' = owed
  /\ UNCHANGED <<scan_in_progress, scan_start_time, callbacks, lock,
                 scansLeft, triggerCount, lastArm, burstCount, reqInScan,
                 owed, followups>>
  /\ UNCHANGED <<srch, pure>>

\* A client calls force_scan: its locked block.  The client goes on to
\* _execute_scan outside the lock unless a scan is in progress.
ForceScan ==
  /\ callsLeft > 0
  /\ callsLeft' = callsLeft - 1
  /\ ~lock
  /\ threads' = IF scan_in_progress
                THEN Forget(Cancel(threads, "force_scan"))
                ELSE Put(Forget(Cancel(threads, "force_scan")),
                         Thread("forced", 0))
  /\ disturbed' = owed
  /\ UNCHANGED <<ctl, scansLeft, triggerCount, lastArm, burstCount, reqInScan,
                 owed, followups>>
  /\ UNCHANGED <<srch, pure>>

(***************************************************************************)
(* _execute_scan: the locked block, then the remote call, then either the  *)
(* monitoring timer or _reset_scan_state.  Run by a debounce Timer whose   *)
(* wait is over or by the client inside force_scan.                        *)
(***************************************************************************)
\* An _execute_scan that finds no scan in progress, whatever the state.
NeverScanning == FALSE

\* The test under the lock at the head of _execute_scan.
AlreadyScanning == scan_in_progress

ExecuteScan(r) ==
  /\ r.pc \in {"exec", "forced"}
  /\ ~lock
  /\ IF AlreadyScanning
     THEN /\ threads' = Ended(threads, r)
          /\ UNCHANGED <<scan_in_progress, downloads_during_scan,
                         scan_start_time, scansLeft, lastArm, reqInScan>>
     ELSE /\ scansLeft > 0
          /\ scansLeft' = scansLeft - 1
          /\ scan_in_progress' = TRUE
          /\ downloads_during_scan' = FALSE
          /\ scan_start_time' = Now
          /\ threads' = Forget(Swap(threads, r,
                            [r EXCEPT !.pc = "trigger", !.cancelled = "no"]))
          /\ lastArm' = NoTime
          /\ reqInScan' = FALSE
  /\ UNCHANGED <<callbacks, lock, callsLeft, triggerCount, burstCount, owed,
                 disturbed, followups>>
  /\ UNCHANGED <<srch, pure>>

\* What plex_client.trigger_library_scan and the start of the monitoring
\* Timer after it can do: return True, return False, raise, or return True
\* with threading.Timer(...).start() raising.
TriggerOutcomes == {"true", "false", "raise", "true_timer_raises"}

\* _start_scan_monitoring: the thread ends and the poll Timer is armed.
StartMonitoring(B, r) == Put(Ended(B, r), Thread("p_armed", InitialPollDelay))

\* A failed trigger after which the scan is monitored all the same.
FailedYetMonitored(B, r) ==
  Put(Swap(B, r, [r EXCEPT !.pc = "reset"]), Thread("p_armed", InitialPollDelay))

\* The else branch and the except blocks: the thread goes on to
\* _reset_scan_state and no Timer is armed.
Failed(B, r) == Swap(B, r, [r EXCEPT !.pc = "reset"])

TriggerScan(r) ==
  /\ r.pc = "trigger"
  /\ triggerCount' = triggerCount + 1
  /\ followups' = IF owed /\ followups < 2 THEN followups + 1 ELSE followups
  /\ \E outcome \in TriggerOutcomes :
       threads' = IF outcome = "true" THEN StartMonitoring(threads, r)
                  ELSE Failed(threads, r)
  /\ UNCHANGED <<ctl, quota, lastArm, burstCount, reqInScan, owed, disturbed>>
  /\ UNCHANGED <<srch, pure>>

\* _reset_scan_state.
ResetScanState(r) ==
  /\ r.pc = "reset"
  /\ ~lock
  /\ scan_in_progress' = FALSE
  /\ scan_start_time' = NoTime
  /\ threads' = Ended(threads, r)
  /\ UNCHANGED <<downloads_during_scan, callbacks, lock, quota, hist>>
  /\ UNCHANGED <<srch, pure>>

(***************************************************************************)
(* Timers and the clock.                                                   *)
(***************************************************************************)
\* time.time() advances by d.  During a scan the clock is sampled at ages
\* up to AgeCap and from the ceiling on.  A Timer's wait ends no earlier
\* than its interval (Expire needs wait = 0); how much later its thread
\* runs is up to the scheduler.
Tick ==
  \E d \in TickSteps :
    /\ scan_in_progress =>
         \/ Now - (scan_start_time - d) <= AgeCap
         \/ Now - (scan_start_time - d) >= MaxScanTime
    /\ threads' = Waited(threads, Live, d)
    /\ scan_start_time' = Earlier(scan_start_time, d, Now - (MaxScanTime + 1))
    /\ lastArm' = Earlier(lastArm, d, Now - Delay)
    /\ UNCHANGED <<scan_in_progress, downloads_during_scan, callbacks, lock,
                   quota, triggerCount, burstCount, reqInScan, owed, disturbed,
                   followups>>
    /\ UNCHANGED <<srch, pure>>

\* The wait of an armed Timer is over: from here on cancel() cannot stop
\* it, and it calls its function (_execute_scan or _poll_scan_status).
Expire(r) ==
  /\ r.pc \in {"d_armed", "p_armed"}
  /\ r.wait = 0
  /\ threads' = Swap(threads, r,
                     [r EXCEPT !.pc = IF r.pc = "d_armed" THEN "exec" ELSE "poll"])
  /\ UNCHANGED <<ctl, quota, hist>>
  /\ UNCHANGED <<srch, pure>>

(***************************************************************************)
(* _poll_scan_status.                                                      *)
(***************************************************************************)
\* The locked block.  On timeout _scan_completed is called inside the
\* `with` block: the thread goes there holding the lock.
PollLocked(r) ==
  /\ r.pc = "poll"
  /\ ~lock
  /\ IF ~scan_in_progress
     THEN /\ threads' = Ended(threads, r)
          /\ UNCHANGED lock
     ELSE IF Truthy(scan_start_time) /\ Now - scan_start_time > MaxScanTime
     THEN /\ threads' = Swap(threads, r,
               [r EXCEPT !.pc = "sc", !.holds = TRUE, !.site = "timeout"])
          /\ lock' = TRUE
     ELSE /\ threads' = Swap(threads, r, [r EXCEPT !.pc = "query"])
          /\ UNCHANGED lock
  /\ UNCHANGED <<scan_in_progress, downloads_during_scan, scan_start_time,
                 callbacks, quota, hist>>
  /\ UNCHANGED <<srch, pure>>

\* What plex_client.is_library_scanning("Music") can do.
PollOutcomes == {"scanning", "not_scanning", "raise"}

\* A next poll scheduled by a thread that goes on polling itself.
PollAgainAndStay(B, r) == Put(B, Thread("p_armed", PollInterval))

\* Still scanning: the next poll Timer is armed and the thread ends.
PollAgain(B, r) == Put(Ended(B, r), Thread("p_armed", PollInterval))

\* The else branch: the scan is over and _scan_completed is called.
PollFinished(B, r) == Swap(B, r, [r EXCEPT !.pc = "sc", !.site = "finished"])

\* An exception of the query that ends the poll thread with nothing done.
PollFailedSilently(B, r) == Ended(B, r)

\* The except block: _scan_completed is called as if the scan were over.
PollFailed(B, r) == Swap(B, r, [r EXCEPT !.pc = "sc", !.site = "except"])

\* The remote status query and what follows it outside the lock: the next
\* poll Timer, or _scan_completed (from the else branch or the except block).
PollQuery(r) ==
  /\ r.pc = "query"
  /\ \E outcome \in PollOutcomes :
       threads' = IF outcome = "scanning" THEN PollAgain(threads, r)
                  ELSE IF outcome = "not_scanning" THEN PollFinished(threads, r)
                  ELSE PollFailed(threads, r)
  /\ UNCHANGED <<ctl, quota, hist>>
  /\ UNCHANGED <<srch, pure>>

(***************************************************************************)
(* _scan_completed and _call_completion_callbacks.                         *)
(***************************************************************************)
\* Where the loop over the copied list goes on from position i: to the
\* callback there, or past the loop.
AfterCallback(list, i) == IF i <= Len(list) THEN "cbrun" ELSE "after_cb"

\* An exception that leaves the loop.
LoopAborted(list, i) == Len(list) + 1

\* The loop position after the callback at i raised: the except clause is
\* inside the loop, so the loop goes on with the next callback.
AfterRaise(list, i) == i + 1

\* The locked block of _scan_completed.
ScanCompleted(r) ==
  /\ r.pc = "sc"
  /\ ~lock
  /\ scan_in_progress' = FALSE
  /\ IF scan_in_progress
     THEN /\ threads' = Swap(threads, r,
               [r EXCEPT !.pc = "cbcopy", !.dds = downloads_during_scan])
          /\ owed' = (owed \/ reqInScan)
          /\ disturbed' = (~reqInScan /\ disturbed)
          /\ followups' = IF reqInScan THEN 0 ELSE followups
     ELSE /\ threads' = Ended(threads, r)
          /\ UNCHANGED <<owed, disturbed, followups>>
  /\ UNCHANGED <<downloads_during_scan, scan_start_time, callbacks, lock,
                 quota, triggerCount, lastArm, burstCount, reqInScan>>
  /\ UNCHANGED <<srch, pure>>

\* The copy of the list with the loop inside the `with` block: the thread
\* keeps the lock while it calls the callbacks.
CopyCallbacksLocked(r) ==
  /\ r.pc = "cbcopy"
  /\ ~lock
  /\ lock' = TRUE
  /\ threads' = Swap(threads, r,
       [r EXCEPT !.cbs = callbacks, !.idx = 1, !.holds = TRUE, !.site = "",
                 !.pc = AfterCallback(callbacks, 1)])
  /\ UNCHANGED <<scan_in_progress, downloads_during_scan, scan_start_time,
                 callbacks, quota, hist>>
  /\ UNCHANGED <<srch, pure>>

\* The locked block of _call_completion_callbacks: the copy of the list.
CopyCallbacks(r) ==
  /\ r.pc = "cbcopy"
  /\ ~lock
  /\ threads' = Swap(threads, r,
       [r EXCEPT !.cbs = callbacks, !.idx = 1, !.site = "",
                 !.pc = AfterCallback(callbacks, 1)])
  /\ UNCHANGED <<ctl, quota, hist>>
  /\ UNCHANGED <<srch, pure>>

\* One iteration of the loop of _call_completion_callbacks: callback() is
\* called by the completing thread, outside every `with` block of its own.
RunCallback(r) ==
  /\ r.pc = "cbrun"
  /\ LET cb == r.cbs[r.idx]
         called == [r EXCEPT !.ran = Append(r.ran, cb)]
     IN IF CallbackBehaviour(cb) = "raise"
        THEN /\ threads' = Swap(threads, r,
                  [called EXCEPT !.idx = AfterRaise(r.cbs, r.idx),
                                 !.pc = AfterCallback(r.cbs, AfterRaise(r.cbs, r.idx))])
             /\ UNCHANGED <<ctl, scansLeft, triggerCount, lastArm, burstCount,
                            reqInScan, disturbed>>
        ELSE /\ request_scan(Swap(threads, r,
                  [called EXCEPT !.idx = r.idx + 1,
                                 !.pc = AfterCallback(r.cbs, r.idx + 1)]))
             /\ disturbed' = owed
  /\ UNCHANGED <<callsLeft, owed, followups>>
  /\ UNCHANGED <<srch, pure>>

\* The end of _scan_completed: the follow-up request if downloads occurred
\* during the scan; then the poll thread ends.
FinishCompletion(r) ==
  /\ r.pc = "after_cb"
  /\ IF r.dds
     THEN request_scan(Ended(threads, r))
     ELSE /\ threads' = Ended(threads, r)
          /\ UNCHANGED <<ctl, scansLeft, triggerCount, lastArm, burstCount,
                         reqInScan>>
  /\ UNCHANGED <<callsLeft, owed, disturbed, followups>>
  /\ UNCHANGED <<srch, pure>>

(***************************************************************************)
(* The system: clients calling the public methods at any time, the         *)
(* threads taking their steps, and the clock.                              *)
(***************************************************************************)
Next ==
  \/ RequestScan
  \/ ForceScan
  \/ Shutdown
  \/ GetStatus
  \/ \E cb \in Callbacks : AddCallback(cb)
  \/ \E cb \in Callbacks : RemoveCallback(cb)
  \/ \E r \in Live : ExecuteScan(r)
  \/ \E r \in Live : TriggerScan(r)
  \/ \E r \in Live : ResetScanState(r)
  \/ \E r \in Live : Expire(r)
  \/ \E r \in Live : PollLocked(r)
  \/ \E r \in Live : PollQuery(r)
  \/ \E r \in Live : ScanCompleted(r)
  \/ \E r \in Live : CopyCallbacks(r)
  \/ \E r \in Live : RunCallback(r)
  \/ \E r \in Live : FinishCompletion(r)
  \/ Tick

Spec == Init /\ [][Next]_vars

\* The scheduler runs every thread that can take a step, and time passes:
\* timers fire and threads waiting for a free lock get it.  Clients are not
\* obliged to call.
FairSpec ==
  /\ Spec
  /\ WF_vars(Tick)
  /\ WF_vars(\E r \in Live : Expire(r))
  /\ WF_vars(\E r \in Live : ExecuteScan(r))
  /\ WF_vars(\E r \in Live : TriggerScan(r))
  /\ WF_vars(\E r \in Live : ResetScanState(r))
  /\ WF_vars(\E r \in Live : PollLocked(r))
  /\ WF_vars(\E r \in Live : PollQuery(r))
  /\ WF_vars(\E r \in Live : ScanCompleted(r))
  /\ WF_vars(\E r \in Live : CopyCallbacks(r))
  /\ WF_vars(\E r \in Live : RunCallback(r))
  /\ WF_vars(\E r \in Live : FinishCompletion(r))

(***************************************************************************)
(* The controller under clients that only send bursts of requests: each    *)
(* request_scan is made while no scan is in progress and before the Timer  *)
(* armed by the previous one, if it is still to run, has ended its wait.   *)
(* No callback is registered, so the loop over the callbacks has no step.  *)
(***************************************************************************)
RequestInBurst ==
  /\ ~scan_in_progress
  /\ \A r \in Live : r.pc # "exec"
  /\ RequestScan

NextDebounce ==
  \/ RequestInBurst
  \/ \E r \in Live : ExecuteScan(r)
  \/ \E r \in Live : TriggerScan(r)
  \/ \E r \in Live : ResetScanState(r)
  \/ \E r \in Live : Expire(r)
  \/ \E r \in Live : PollLocked(r)
  \/ \E r \in Live : PollQuery(r)
  \/ \E r \in Live : ScanCompleted(r)
  \/ \E r \in Live : CopyCallbacks(r)
  \/ \E r \in Live : FinishCompletion(r)
  \/ Tick

DebounceSpec == Init /\ [][NextDebounce]_vars

(***************************************************************************)
(* The controller under clients that only call request_scan, at any time,  *)
(* with room for one scan more.                                            *)
(***************************************************************************)
InitRequests ==
  /\ scan_in_progress = FALSE
  /\ downloads_during_scan = FALSE
  /\ scan_start_time = NoTime
  /\ callbacks = <<>>
  /\ lock = FALSE
  /\ threads = EmptyBag
  /\ callsLeft = MaxCalls
  /\ scansLeft = MaxScans + 1
  /\ triggerCount = 0
  /\ lastArm = NoTime
  /\ burstCount = 0
  /\ reqInScan = FALSE
  /\ owed = FALSE
  /\ disturbed = FALSE
  /\ followups = 0
  /\ NoSearch
  /\ NothingApplied

NextRequests ==
  \/ RequestScan
  \/ \E r \in Live : ExecuteScan(r)
  \/ \E r \in Live : TriggerScan(r)
  \/ \E r \in Live : ResetScanState(r)
  \/ \E r \in Live : Expire(r)
  \/ \E r \in Live : PollLocked(r)
  \/ \E r \in Live : PollQuery(r)
  \/ \E r \in Live : ScanCompleted(r)
  \/ \E r \in Live : CopyCallbacks(r)
  \/ \E r \in Live : FinishCompletion(r)
  \/ Tick

RequestsSpec == InitRequests /\ [][NextRequests]_vars

(***************************************************************************)
(* The controller started after clients have registered callbacks: the     *)
(* registry is any list add_scan_completion_callback can have built.       *)
(***************************************************************************)
Registries ==
  {<<>>, <<"cbRaise">>, <<"cbReenter">>, <<"cbRaise", "cbReenter">>,
   <<"cbReenter", "cbRaise">>}

InitRegistered ==
  /\ scan_in_progress = FALSE
  /\ downloads_during_scan = FALSE
  /\ scan_start_time = NoTime
  /\ callbacks \in Registries
  /\ lock = FALSE
  /\ threads = EmptyBag
  /\ callsLeft = MaxCalls - 1
  /\ scansLeft = MaxScans - 1
  /\ triggerCount = 0
  /\ lastArm = NoTime
  /\ burstCount = 0
  /\ reqInScan = FALSE
  /\ owed = FALSE
  /\ disturbed = FALSE
  /\ followups = 0
  /\ NoSearch
  /\ NothingApplied

RegisteredSpec == InitRegistered /\ [][Next]_vars

(***************************************************************************)
(* The controller under clients that send one burst of requests and then   *)
(* call force_scan once, while the controller is idle or pending: nothing  *)
(* is requested after a scan was started or forced.                        *)
(***************************************************************************)
Untouched ==
  /\ triggerCount = 0
  /\ ~scan_in_progress
  /\ \A r \in Live : r.pc # "forced"

RequestBeforeForce ==
  /\ Untouched
  /\ \A r \in Live : r.pc # "exec"
  /\ RequestScan

ForceOnce ==
  /\ Untouched
  /\ ForceScan

NextForced ==
  \/ RequestBeforeForce
  \/ ForceOnce
  \/ \E r \in Live : ExecuteScan(r)
  \/ \E r \in Live : TriggerScan(r)
  \/ \E r \in Live : ResetScanState(r)
  \/ \E r \in Live : Expire(r)
  \/ \E r \in Live : PollLocked(r)
  \/ \E r \in Live : PollQuery(r)
  \/ \E r \in Live : ScanCompleted(r)
  \/ \E r \in Live : CopyCallbacks(r)
  \/ \E r \in Live : FinishCompletion(r)
  \/ Tick

ForcedSpec == Init /\ [][NextForced]_vars

(***************************************************************************)
(* The controller from the moment a first scan has been triggered and its  *)
(* poll Timer armed, with or without a request_scan made since; clients    *)
(* call force_scan while a scan is in progress.                            *)
(***************************************************************************)
InitScanning ==
  /\ scan_in_progress = TRUE
  /\ downloads_during_scan \in BOOLEAN
  /\ scan_start_time = Now
  /\ callbacks = <<>>
  /\ lock = FALSE
  /\ threads = SetToBag({Thread("p_armed", InitialPollDelay)})
  /\ callsLeft = MaxCalls - 2
  /\ scansLeft = MaxScans - 1
  /\ triggerCount = 1
  /\ lastArm = NoTime
  /\ burstCount = 0
  /\ reqInScan = downloads_during_scan
  /\ owed = FALSE
  /\ disturbed = FALSE
  /\ followups = 0
  /\ NoSearch
  /\ NothingApplied

ForceWhileScanning ==
  /\ scan_in_progress
  /\ ForceScan

NextScanning ==
  \/ ForceWhileScanning
  \/ \E r \in Live : ExecuteScan(r)
  \/ \E r \in Live : TriggerScan(r)
  \/ \E r \in Live : ResetScanState(r)
  \/ \E r \in Live : Expire(r)
  \/ \E r \in Live : PollLocked(r)
  \/ \E r \in Live : PollQuery(r)
  \/ \E r \in Live : ScanCompleted(r)
  \/ \E r \in Live : CopyCallbacks(r)
  \/ \E r \in Live : FinishCompletion(r)
  \/ Tick

ScanningSpec == InitScanning /\ [][NextScanning]_vars

(***************************************************************************)
(* The controller during a first scan, with an empty registry, under       *)
(* clients that only register and unregister completion callbacks.         *)
(***************************************************************************)
InitRegistry ==
  /\ scan_in_progress = TRUE
  /\ downloads_during_scan \in BOOLEAN
  /\ scan_start_time = Now
  /\ callbacks = <<>>
  /\ lock = FALSE
  /\ threads = SetToBag({Thread("p_armed", InitialPollDelay)})
  /\ callsLeft = MaxCalls - 1
  /\ scansLeft = MaxScans - 1
  /\ triggerCount = 1
  /\ lastArm = NoTime
  /\ burstCount = 0
  /\ reqInScan = downloads_during_scan
  /\ owed = FALSE
  /\ disturbed = FALSE
  /\ followups = 0
  /\ NoSearch
  /\ NothingApplied

NextRegistry ==
  \/ \E cb \in Callbacks : AddCallback(cb)
  \/ \E cb \in Callbacks : RemoveCallback(cb)
  \/ \E r \in Live : ExecuteScan(r)
  \/ \E r \in Live : TriggerScan(r)
  \/ \E r \in Live : ResetScanState(r)
  \/ \E r \in Live : Expire(r)
  \/ \E r \in Live : PollLocked(r)
  \/ \E r \in Live : PollQuery(r)
  \/ \E r \in Live : ScanCompleted(r)
  \/ \E r \in Live : CopyCallbacks(r)
  \/ \E r \in Live : RunCallback(r)
  \/ \E r \in Live : FinishCompletion(r)
  \/ Tick

RegistrySpec == InitRegistry /\ [][NextRegistry]_vars

(***************************************************************************)
(* Properties of the scan controller.                                      *)
(***************************************************************************)
\* The number of threads of B that are at one of the places pcs.
Number(B, pcs) ==
  BagCardinality([r \in {x \in BagToSet(B) : x.pc \in pcs} |-> CopiesIn(r, B)])

\* A Timer that can still call _execute_scan: waiting, or past its wait and
\* not yet inside the locked block.
DebouncePcs == {"d_armed", "exec"}

\* The poll of a scan: its Timer waiting, or _poll_scan_status before it
\* calls _scan_completed.
PollPcs == {"p_armed", "poll", "query"}

\* The places where a thread is about to acquire self._lock.
LockingPcs == {"exec", "forced", "reset", "poll", "sc", "cbcopy"}

\* C3: once trigger_library_scan has succeeded and the scan is being
\* polled, scan_in_progress eventually becomes false (at the latest by the
\* first poll past the 1800 s ceiling), given that timers fire and threads
\* run.
ScanNeverStuck ==
  (scan_in_progress /\ Number(threads, PollPcs) > 0) ~> ~scan_in_progress

\* C4: no thread requests the lock while it already holds it.
NoSelfDeadlock == \A r \in Live : r.pc \in LockingPcs => ~r.holds

\* C7: at most one Timer can still call _execute_scan, and it is the one
\* self._timer refers to.
OneLiveDebounceTimer ==
  /\ Number(threads, DebouncePcs) <= 1
  /\ \A r \in Live : r.pc \in DebouncePcs => r.ref

\* C9: in every state get_status can observe, downloads_during_scan implies
\* scan_in_progress.
FlagOnlyDuringScan ==
  ~lock => (get_status.downloads_during_scan => get_status.scan_in_progress)

\* A step in which request_scan is called: by a client, by a completion
\* callback, or by _scan_completed for the follow-up.
RequestScanCalled ==
  \/ RequestScan
  \/ \E r \in Live : /\ r.pc = "cbrun"
                     /\ CallbackBehaviour(r.cbs[r.idx]) = "request_scan"
                     /\ RunCallback(r)
  \/ \E r \in Live : r.pc = "after_cb" /\ r.dds /\ FinishCompletion(r)

\* C10: request_scan while a scan is in progress sets the flag and nothing
\* else: no Timer is armed or referenced anew, no thread is on its way to
\* trigger_library_scan, no trigger call is made, and scan_in_progress, the
\* scan start time and the callback registry are unchanged.
RequestDuringScanOnlySetsFlag ==
  [][(scan_in_progress /\ RequestScanCalled) =>
       /\ downloads_during_scan'
       /\ Number(threads', {"d_armed"}) = Number(threads, {"d_armed"})
       /\ Number(threads', {"p_armed"}) = Number(threads, {"p_armed"})
       /\ Number(threads', {"exec", "forced", "trigger"})
            = Number(threads, {"exec", "forced", "trigger"})
       /\ Referenced(threads') = Referenced(threads)
       /\ triggerCount' = triggerCount
       /\ UNCHANGED <<scan_in_progress, scan_start_time, callbacks>>]_vars

\* A request_scan arrived during the scan in progress and set the flag.
RequestedDuringScan == scan_in_progress /\ reqInScan /\ downloads_during_scan

\* C8: when trigger_library_scan returns False or raises (after the
\* debounce Timer fired or inside force_scan), no status poll is scheduled,
\* and the thread returns through _reset_scan_state, which leaves
\* scan_in_progress false and still no poll scheduled.
TriggerFailureReturnsToIdle ==
  [][\A r \in Live :
       /\ (r.pc = "trigger" /\ TriggerScan(r)
             /\ Number(threads', {"reset"}) > Number(threads, {"reset"}))
            => Number(threads', PollPcs) = 0
       /\ (r.pc = "reset" /\ ResetScanState(r))
            => /\ ~scan_in_progress'
               /\ scan_start_time' = NoTime
               /\ Number(threads', PollPcs) = 0
               /\ Number(threads', {"reset"}) = Number(threads, {"reset"}) - 1
               /\ Number(threads', DebouncePcs) = Number(threads, DebouncePcs)]_vars

\* A trigger was made and failed, and the controller is back to idle with
\* nothing left running.
IdleAfterFailedTrigger ==
  /\ triggerCount > 0
  /\ ~scan_in_progress
  /\ scan_start_time = NoTime
  /\ \A r \in Live : r.pc = "done"

\* C1: every burst of request_scan calls gets exactly one call of
\* trigger_library_scan: it has been made, or one thread is on its way to
\* make it, or exactly one Timer is still to run _execute_scan for it, and
\* that Timer is the one self._timer refers to.  The Timer's function runs
\* only once the delay has passed since the last call of the burst.
DebounceCoalesces ==
  /\ triggerCount + Number(threads, {"trigger"}) + Number(threads, DebouncePcs)
       = burstCount
  /\ Number(threads, DebouncePcs) <= 1
  /\ \A r \in Live : r.pc \in DebouncePcs => r.ref /\ lastArm # NoTime
  /\ \A r \in Live : r.pc = "exec" => Now - lastArm >= Delay

\* A burst of at least two calls was served by one trigger call.
BurstServedOnce ==
  /\ callsLeft <= MaxCalls - 2
  /\ burstCount = 1
  /\ triggerCount = 1

\* The places of a thread inside _call_completion_callbacks or past it.
CallbackPcs == {"cbrun", "after_cb"}

\* The follow-up or re-entrant request_scan had its effect: the flag is set
\* if a scan is in progress, else self._timer is a Timer armed just now.
RequestMade(wasScanning) ==
  IF wasScanning
  THEN downloads_during_scan' /\ scan_in_progress'
  ELSE /\ ~scan_in_progress'
       /\ \E t \in Referenced(threads') : t.pc = "d_armed" /\ t.wait = Delay

\* What a completing thread has called so far is what the loop has passed,
\* each callback of its copy once in the order of the copy, and all of the
\* copy once it is past the loop.
CalledOncePerCopy ==
  \A r \in Live :
    /\ r.pc = "cbrun" => r.idx \in 1..Len(r.cbs)
                         /\ r.ran = SubSeq(r.cbs, 1, r.idx - 1)
    /\ r.pc = "after_cb" => r.ran = r.cbs
    /\ \A i, j \in 1..Len(r.cbs) : r.cbs[i] = r.cbs[j] => i = j

\* C5: when _scan_completed ends a scan in progress, the thread copies the
\* registry and calls every callback of the copy exactly once, whether or
\* not a callback raises, and then makes the follow-up request if the flag
\* was set; when no scan is in progress it calls no callback.
CallbacksIsolated ==
  /\ CalledOncePerCopy
  /\ [][/\ CalledOncePerCopy'
        /\ \A r \in Live :
             /\ (r.pc = "sc" /\ ScanCompleted(r)) =>
                  IF scan_in_progress
                  THEN Number(threads', {"cbcopy"}) = Number(threads, {"cbcopy"}) + 1
                  ELSE /\ Number(threads', {"cbcopy"}) = Number(threads, {"cbcopy"})
                       /\ Number(threads', CallbackPcs) = Number(threads, CallbackPcs)
             /\ (r.pc = "cbcopy" /\ CopyCallbacks(r)) =>
                  \E t \in BagToSet(threads') :
                    t.pc \in CallbackPcs /\ t.cbs = callbacks /\ t.ran = <<>>
                    /\ t.dds = r.dds
             /\ (r.pc = "after_cb" /\ r.dds /\ FinishCompletion(r)) =>
                  RequestMade(scan_in_progress)]_vars

\* A completing thread called a callback that raised and then the other
\* one, and is about to make the follow-up request.
RaisedThenCalledNext ==
  \E r \in Live :
    /\ r.pc = "after_cb"
    /\ r.dds
    /\ r.ran = <<"cbRaise", "cbReenter">>

Quiescent == \A r \in Live : r.pc = "done"

\* C2: after a scan during which request_scan was called is observed
\* complete, and with no call of a client since, at most one
\* trigger_library_scan call is made, and exactly one by the time nothing
\* is left to run.
ExactlyOneFollowUp ==
  (owed /\ ~disturbed) =>
     /\ followups <= 1
     /\ Quiescent => followups = 1

\* C11: force_scan called while the controller is idle or pending makes
\* the one trigger_library_scan call for the requests made so far: the
\* Timer it cancelled never causes a second one.
ForceScanTriggersOnce ==
  triggerCount + Number(threads, {"trigger"}) <= 1

\* C12: force_scan while a scan is in progress changes nothing: no thread
\* is started and no Timer touched, no trigger call is made, and
\* scan_in_progress, the flag, the scan start time and the registry are as
\* before.
ForceDuringScanIsNoOp ==
  [][(scan_in_progress /\ ForceScan) =>
       /\ threads' = threads
       /\ triggerCount' = triggerCount
       /\ UNCHANGED <<scan_in_progress, downloads_during_scan,
                      scan_start_time, callbacks, lock>>]_vars

\* force_scan has been called during the first scan, which had a request
\* queued, and the scan is still in progress with the request queued.
ForcedDuringScan ==
  /\ scan_in_progress
  /\ downloads_during_scan
  /\ callsLeft < MaxCalls - 2
  /\ scansLeft = MaxScans - 1

\* The places of the one thread that answers for a scan in progress: it is
\* about to trigger it or to reset it, polls it, or is completing it.
ScanOwnerPcs == {"trigger", "reset", "sc"} \cup PollPcs

\* A scan in progress always has exactly one thread answering for it.
ScanOwned == scan_in_progress => Number(threads, ScanOwnerPcs) = 1

\* C13: when is_library_scanning raises during a poll of a scan in
\* progress, the poll thread calls _scan_completed and arms no further
\* poll; _scan_completed sets scan_in_progress false and passes the flag
\* on; the thread then copies the registry to call the callbacks, and
\* makes the follow-up request if the flag was set.
PollErrorFailsOpen ==
  /\ ScanOwned
  /\ [][/\ ScanOwned'
        /\ \A r \in Live :
             /\ (r.pc = "query" /\ scan_in_progress
                   /\ threads' = PollFailed(threads, r)) =>
                  /\ Number(threads', {"sc"}) = Number(threads, {"sc"}) + 1
                  /\ Number(threads', PollPcs) = 0
                  /\ \A t \in BagToSet(threads') : t.pc = "sc" => ~t.holds
             /\ (r.pc = "sc" /\ r.site = "except" /\ ScanCompleted(r)) =>
                  /\ scan_in_progress /\ ~scan_in_progress'
                  /\ Number(threads', PollPcs) = 0
                  /\ \E t \in BagToSet(threads') :
                       /\ t.pc = "cbcopy" /\ t.site = "except"
                       /\ t.dds = downloads_during_scan
             /\ (r.pc = "cbcopy" /\ r.site = "except" /\ CopyCallbacks(r)) =>
                  \E t \in BagToSet(threads') :
                    t.pc \in CallbackPcs /\ t.cbs = callbacks /\ t.dds = r.dds
             /\ (r.pc = "after_cb" /\ r.dds /\ FinishCompletion(r)) =>
                  RequestMade(scan_in_progress)]_vars

\* The query raised, and the scan, which had a request queued, has been
\* completed: the thread is about to call the registered callbacks.
CompletedAfterPollError ==
  /\ ~scan_in_progress
  /\ callbacks # <<>>
  /\ Number(threads, PollPcs) = 0
  /\ \E r \in Live : r.pc = "cbcopy" /\ r.site = "except" /\ r.dds

\* The places of a thread that is completing a scan.
CompletionPcs == {"sc", "cbcopy"} \cup CallbackPcs

\* C14: a poll of a scan in progress that finds it still scanning arms
\* exactly one further poll, leaves the controller's state as it is and
\* calls no callback; one that finds it over calls _scan_completed, which
\* sets scan_in_progress false, and arms no further poll.  At most one
\* poll is outstanding at any time, and only while a scan is in progress.
PollTransitions ==
  /\ Number(threads, PollPcs) = 0
  /\ [][/\ Number(threads', PollPcs) <= 1
        /\ Number(threads', PollPcs) = 1 => scan_in_progress'
        /\ \A r \in Live :
             /\ (r.pc = "query" /\ scan_in_progress
                   /\ threads' = PollAgain(threads, r)) =>
                  /\ Number(threads', {"p_armed"}) = 1
                  /\ \E t \in BagToSet(threads') :
                       t.pc = "p_armed" /\ t.wait = PollInterval
                  /\ Number(threads', CompletionPcs)
                       = Number(threads, CompletionPcs)
                  /\ UNCHANGED ctl
             /\ (r.pc = "query" /\ scan_in_progress
                   /\ threads' = PollFinished(threads, r)) =>
                  /\ Number(threads', PollPcs) = 0
                  /\ Number(threads', {"sc"}) = Number(threads, {"sc"}) + 1
             /\ (r.pc = "sc" /\ r.site = "finished" /\ ScanCompleted(r)) =>
                  /\ scan_in_progress /\ ~scan_in_progress'
                  /\ Number(threads', PollPcs) = 0]_vars

\* A poll found the scan still scanning and the next poll is armed.
PolledAgain ==
  /\ scan_in_progress
  /\ callbacks # <<>>
  /\ \E r \in Live : r.pc = "p_armed" /\ r.wait = PollInterval

\* C15: a debounce Timer that shutdown() has cancelled never starts a
\* scan: if it still runs _execute_scan, that call finds a scan in
\* progress and returns without triggering.
ShutdownCancelsTimer ==
  [][\A r \in Live :
       (r.pc = "exec" /\ r.cancelled = "shutdown" /\ ExecuteScan(r)) =>
         /\ scan_in_progress
         /\ Number(threads', {"trigger"}) = Number(threads, {"trigger"})]_vars

\* No callback is at two places of the list.
NoDuplicates(list) ==
  \A i, j \in 1..Len(list) : list[i] = list[j] => i = j

\* C16: the registry never holds a callback twice; adding a registered
\* callback and removing a callback that is not registered leave the
\* registry as it is, and adding a new callback and then removing it
\* gives the registry back.
RegistryIdempotent ==
  /\ NoDuplicates(callbacks)
  /\ \A cb \in Callbacks :
       /\ Registered(callbacks, cb) => Added(callbacks, cb) = callbacks
       /\ ~Registered(callbacks, cb) =>
            /\ Removed(callbacks, cb) = callbacks
            /\ Added(callbacks, cb) # callbacks
            /\ Removed(Added(callbacks, cb), cb) = callbacks
  /\ [][/\ NoDuplicates(callbacks')
        /\ \A cb \in Callbacks :
             /\ (Registered(callbacks, cb) /\ AddCallback(cb)) =>
                  callbacks' = callbacks
             /\ (~Registered(callbacks, cb) /\ RemoveCallback(cb)) =>
                  callbacks' = callbacks
             /\ (~Registered(callbacks, cb) /\ AddCallback(cb)) =>
                  Removed(callbacks', cb) = callbacks]_vars

\* Two calls of add and remove were made and the registry is empty again.
RegistryRestored ==
  /\ callbacks = <<>>
  /\ callsLeft = MaxCalls - 3

(***************************************************************************)
(* Part 2: SoulseekClient.search (src/core/soulseek_client.py).            *)
(*                                                                         *)
(* One search() call: the submission, then the poll loop.  One iteration   *)
(* of the loop is one step: the GET of the response list, the processing   *)
(* of what is new in it, the sort, the progress callback, and either the   *)
(* break, the return after the last iteration, or the sleep.  The backend  *)
(* gathers responses while the call sleeps; what it has gathered shows at  *)
(* the next GET.                                                           *)
(*                                                                         *)
(* A response is known by its place in the backend's list; what the peer   *)
(* reported in it is Response(i).  Scores are in hundredths.               *)
(***************************************************************************)
MaxTimeout   == 6     \* the largest timeout a caller passes, in seconds
MaxResponses == 31    \* responses the backend gathers for one search

poll_interval_tenths == 15   \* poll_interval = 1.5 seconds
EarlyStop            == 30   \* responses after which the loop breaks

\* The timeouts callers pass.
Timeouts == 0..MaxTimeout

\* The progress_callback arguments callers pass: None, a function that
\* returns, a function that raises.
ProgressCallbacks == {"none", "returns", "raises"}

\* How the submission ends: a search id, no id in the reply, no reply, or
\* no submission because the client has no base_url.
Submissions == {"id", "no_id", "no_reply", "unconfigured"}

\* Responses the backend gathers between two GETs.
Growth == {0, 1, 15, 30}

\* None, which is no directory: a directory's name is a sequence of single
\* characters.
None == <<"None">>

\* A file a peer reports: filename d/n.e, or n.e when d is empty.
File(d, n, e, b, k) == [dir |-> d, name |-> n, ext |-> e, bitRate |-> b, number |-> k]

LiveDir  == <<"L", "i", "v", "e">>
AlbumDir == <<"A", "l", "b", "u", "m">>
EaDir    == <<"@", "e", "a", "D", "i", "r">>
ShortDir == <<"x">>

\* The peers that answer, in turn: bob shares two mp3 outside any directory
\* and a picture; dan a directory of two mp3; cat one flac in a directory
\* and two ogg in a directory with a name of one character; ann a directory
\* of two flac, one of them under the very filename cat reports, and two
\* wav in a directory with a name that starts with '@'.
Peers ==
  << [username |-> "bob", freeUploadSlots |-> 0, uploadSpeed |-> 50,
      queueLength |-> 20,
      files |-> << File(<<>>, "song", "mp3", 320, 0),
                   File(<<>>, "cover", "jpg", 0, 0),
                   File(<<>>, "tune", "mp3", 128, 0) >>],
     [username |-> "dan", freeUploadSlots |-> 0, uploadSpeed |-> 0,
      queueLength |-> 0,
      files |-> << File(LiveDir, "02 - b", "mp3", 96, 2),
                   File(LiveDir, "01 - a", "mp3", 192, 1) >>],
     [username |-> "cat", freeUploadSlots |-> 0, uploadSpeed |-> 0,
      queueLength |-> 0,
      files |-> << File(AlbumDir, "01 - a", "flac", 0, 1),
                   File(ShortDir, "01 - c", "ogg", 256, 1),
                   File(ShortDir, "02 - d", "ogg", 256, 2) >>],
     [username |-> "ann", freeUploadSlots |-> 1, uploadSpeed |-> 200,
      queueLength |-> 0,
      files |-> << File(AlbumDir, "01 - a", "flac", 0, 1),
                   File(AlbumDir, "02 - b", "flac", 0, 2),
                   File(EaDir, "thumb", "wav", 0, 0),
                   File(EaDir, "index", "wav", 0, 0) >>] >>

\* The i-th response of the backend's list.
Response(i) == Peers[((i - 1) % Len(Peers)) + 1]

\* The backend's list when it holds n responses.
ResponsesData(n) == [i \in 1..n |-> i]

\* SearchResult.quality_score and AlbumResult.quality_score.
quality_weights(q) ==
  CASE q = "flac" -> 100
    [] q = "mp3" -> 80
    [] q = "ogg" -> 70
    [] q = "aac" -> 60
    [] q = "wma" -> 50
    [] OTHER -> 30

Min(a, b) == IF a <= b THEN a ELSE b

UserMetrics(x) ==
  (IF x.free_upload_slots > 0 THEN 10 ELSE 0)
  + (IF x.upload_speed > 100 THEN 5 ELSE 0)
  - (IF x.queue_length > 10 THEN 10 ELSE 0)

quality_score(x) ==
  IF x.result_type = "track"
  THEN Min(quality_weights(x.quality)
           + (IF x.bitrate = 0 THEN 0
              ELSE IF x.bitrate >= 320 THEN 20
              ELSE IF x.bitrate >= 256 THEN 10
              ELSE IF x.bitrate < 128 THEN -20
              ELSE 0)
           + UserMetrics(x), 100)
  ELSE Min(quality_weights(x.dominant_quality)
           + (IF 8 <= x.track_count /\ x.track_count <= 20 THEN 10
              ELSE IF x.track_count > 20 THEN 5
              ELSE 0)
           + UserMetrics(x), 100)

\* A list built item by item, as the list it is.
AsList(items) == items \o <<>>

\* list.sort(key=quality_score, reverse=True): the sort is stable, so the
\* place of an item is one more than the number of items with a higher
\* score or with the same score and an earlier place.
SortedByScore(list) ==
  LET n == Len(list)
      score == AsList([i \in 1..n |-> quality_score(list[i])])
      place == AsList([i \in 1..n |->
                  1 + Cardinality({j \in 1..n :
                                     \/ score[j] > score[i]
                                     \/ score[j] = score[i] /\ j < i})])
  IN AsList([p \in 1..n |-> list[CHOOSE i \in 1..n : place[i] = p]])

\* sorted(tracks, key=lambda t: t.track_number or 0), stable as well.
SortedByNumber(list) ==
  LET n == Len(list)
      place == AsList([i \in 1..n |->
                  1 + Cardinality({j \in 1..n :
                                     \/ list[j].track_number < list[i].track_number
                                     \/ /\ list[j].track_number = list[i].track_number
                                        /\ j < i})])
  IN AsList([p \in 1..n |-> list[CHOOSE i \in 1..n : place[i] = p]])

AudioExtensions == {"mp3", "flac", "ogg", "aac", "wma", "wav", "m4a"}

\* The TrackResult made of file f of response i.
TrackResult(i, f) ==
  [result_type |-> "track",
   username |-> Response(i).username,
   filename |-> [dir |-> f.dir, name |-> f.name, ext |-> f.ext],
   bitrate |-> f.bitRate,
   quality |-> IF f.ext \in {"flac", "mp3", "ogg", "aac", "wma"}
               THEN f.ext ELSE "unknown",
   free_upload_slots |-> Response(i).freeUploadSlots,
   upload_speed |-> Response(i).uploadSpeed,
   queue_length |-> Response(i).queueLength,
   track_number |-> f.number,
   response |-> i]

\* The audio files of response i, in the order reported.
AudioFiles(i) ==
  LET IsAudio(f) == f.ext \in AudioExtensions
  IN SelectSeq(Response(i).files, IsAudio)

\* The most files one response of Peers reports.
Widest ==
  CHOOSE w \in 0..9 :
    /\ \A k \in 1..Len(Peers) : Len(Peers[k].files) <= w
    /\ \E k \in 1..Len(Peers) : Len(Peers[k].files) = w

\* The tracks parsed from the audio files of the responses: response after
\* response, file after file.
ParsedTracks(responses) ==
  LET n == Len(responses)
      audio == AsList([r \in 1..n |-> AudioFiles(responses[r])])
      slots == AsList([p \in 1..(n * Widest) |->
                         <<((p - 1) \div Widest) + 1, ((p - 1) % Widest) + 1>>])
      Filled(slot) == slot[2] <= Len(audio[slot[1]])
      filled == SelectSeq(slots, Filled)
  IN AsList([p \in 1..Len(filled) |->
               TrackResult(responses[filled[p][1]],
                           audio[filled[p][1]][filled[p][2]])])

\* An album path for every file in a directory, whatever its name.
album_path_of_any_directory(filename) ==
  IF filename.dir = <<>> THEN None ELSE filename.dir

\* _extract_album_path: the directory of the file, unless the filename has
\* no separator or the directory's name starts with '@' or has fewer than
\* two characters.  A directory is told from another by its name.
extract_album_path(filename) ==
  IF filename.dir = <<>> THEN None
  ELSE IF filename.dir[1] = "@" \/ Len(filename.dir) < 2 THEN None
  ELSE filename.dir

\* The key under which a track is grouped when its album path is not None.
AlbumKey(t) == <<t.username, extract_album_path(t.filename)>>

\* The keys of albums_by_path, in the order they were first inserted: the
\* keys of the tracks that have an album path and no earlier track with
\* the same key.
KeysInOrder(tracks) ==
  LET n == Len(tracks)
      key == AsList([j \in 1..n |-> AlbumKey(tracks[j])])
      First(j) == key[j][2] # None /\ \A h \in 1..(j - 1) : key[h] # key[j]
      firsts == SelectSeq(AsList([j \in 1..n |-> j]), First)
  IN AsList([p \in 1..Len(firsts) |-> key[firsts[p]]])

\* Counter(...).most_common(1)[0][0]: the most frequent quality, the one
\* met first among equally frequent ones.
DominantQuality(tracks) ==
  LET n == Len(tracks)
      count(q) == Cardinality({j \in 1..n : tracks[j].quality = q})
      first(q) == CHOOSE j \in 1..n :
                    tracks[j].quality = q /\ \A h \in 1..(j - 1) : tracks[h].quality # q
      best == CHOOSE j \in 1..n :
                \A h \in 1..n :
                  \/ count(tracks[h].quality) < count(tracks[j].quality)
                  \/ /\ count(tracks[h].quality) = count(tracks[j].quality)
                     /\ first(tracks[j].quality) <= first(tracks[h].quality)
  IN tracks[best].quality

\* The AlbumResult made of the tracks grouped under key.
AlbumResult(key, tracks) ==
  [result_type |-> "album",
   username |-> key[1],
   album_path |-> key[2],
   track_count |-> Len(tracks),
   tracks |-> SortedByNumber(tracks),
   dominant_quality |-> DominantQuality(tracks),
   free_upload_slots |-> tracks[1].free_upload_slots,
   upload_speed |-> tracks[1].upload_speed,
   queue_length |-> tracks[1].queue_length]

\* _create_album_results: an album for every key with two tracks or more.
create_album_results(tracks) ==
  LET keys == KeysInOrder(tracks)
      Group(key) == LET Under(t) == AlbumKey(t) = key
                    IN SelectSeq(tracks, Under)
      groups == AsList([k \in 1..Len(keys) |-> Group(keys[k])])
      Large(group) == Len(group) >= 2
      large == SelectSeq(groups, Large)
  IN AsList([k \in 1..Len(large) |-> AlbumResult(AlbumKey(large[k][1]), large[k])])

\* _process_search_responses: the individual tracks and the albums.
process_search_responses(responses) ==
  LET tracks == ParsedTracks(responses)
      albums == create_album_results(tracks)
      album_track_filenames ==
        UNION {{albums[a].tracks[k].filename : k \in 1..Len(albums[a].tracks)} :
                 a \in 1..Len(albums)}
      Individual(t) == t.filename \notin album_track_filenames
  IN <<SelectSeq(tracks, Individual), albums>>

\* A number of polls rounded up instead of down.
max_polls_rounded_up(t) ==
  (10 * t + poll_interval_tenths - 1) \div poll_interval_tenths

\* max_polls = int(timeout / poll_interval), for a timeout that is not
\* negative.
max_polls(t) == (10 * t) \div poll_interval_tenths

\* The whole fetched list taken as new.
WholeList(responses_data, seen) == responses_data

\* new_responses = responses_data[len(all_responses):]
NewResponses(responses_data, seen) ==
  SubSeq(responses_data, Len(seen) + 1, Len(responses_data))

\* The new results sorted among themselves and put after the old ones.
DeltaSorted(list, new) == list \o SortedByScore(new)

\* list.extend(new) followed by list.sort(...).
Aggregated(list, new) == SortedByScore(list \o new)

\* A loop that never breaks.
NeverEnough(responses) == FALSE

\* len(all_responses) >= 30
Enough(responses) == Len(responses) >= EarlyStop

\* An exception of the callback that leaves the loop's try block.
EscapesWhenRaised(cb) == cb = "raises"

\* Whether an exception raised by progress_callback leaves the try block
\* around its call: `except Exception` catches it and logs.
Escapes(cb) == FALSE

\* An exception that search() lets through to its caller.
Propagated == [pc |-> "raised", result |-> <<>>]

\* The outer `except Exception`: search() logs and returns [], [].
OnException == [pc |-> "returned", result |-> <<<<>>, <<>>>>]

\* What the poll that finds the backend holding `held` responses fetches:
\* the list, or nothing when the GET fails.
Fetched(got, held) == IF got = "list" THEN ResponsesData(held) ELSE <<>>

\* The arguments and locals of a search() call are a record; search_id is
\* the id the backend gave to its submission.  The first call's are the
\* variables.
FirstCall ==
  [search_id |-> 1, search_pc |-> search_pc, timeout |-> timeout,
   progress_callback |-> progress_callback, poll_count |-> poll_count,
   all_responses |-> all_responses, all_tracks |-> all_tracks,
   all_albums |-> all_albums, backend |-> backend, fetches |-> fetches,
   batches |-> batches, delivered |-> delivered, result |-> result]

\* The list the backend returns for search id: the responses to one search
\* are not those to another.
FetchedFor(id, got, held) ==
  IF id = 1 THEN Fetched(got, held)
  ELSE AsList([i \in 1..Len(Fetched(got, held)) |->
                 (id - 1) * (MaxResponses + 2) + i])

\* search(query, t, cb) from its call to the first iteration of the loop
\* or, when there is none to make, to the return: the configuration check,
\* the POST and the reading of the search id.
Called(call, t, cb, sub) ==
  IF sub = "id" /\ max_polls(t) > 0
  THEN [call EXCEPT !.timeout = t, !.progress_callback = cb,
                    !.search_pc = "polling"]
  ELSE [call EXCEPT !.timeout = t, !.progress_callback = cb,
                    !.search_pc = "returned", !.result = <<<<>>, <<>>>>]

\* The call after the GET of an iteration that found the backend holding
\* `held` responses.
AfterGet(call, held) ==
  [call EXCEPT !.backend = held, !.fetches = call.fetches + 1]

\* The call after a list with new entries was taken in: new_responses
\* processed into `processed`, the lists extended and sorted, the progress
\* callback called.
AfterResults(call, held, responses_data, new_responses, processed) ==
  LET tracks == Aggregated(call.all_tracks, processed[1])
      albums == Aggregated(call.all_albums, processed[2])
  IN [AfterGet(call, held) EXCEPT
        !.all_responses = responses_data,
        !.all_tracks = tracks,
        !.all_albums = albums,
        !.batches = Append(call.batches, new_responses),
        !.delivered =
           IF call.progress_callback = "none" THEN call.delivered
           ELSE Append(call.delivered,
                       [tracks |-> tracks, albums |-> albums,
                        count |-> Len(responses_data)])]

\* A return with nothing in it.
NothingReturned(call) == <<<<>>, <<>>>>

\* return all_tracks, all_albums after the loop.
Returned(call) == <<call.all_tracks, call.all_albums>>

\* The end of an iteration that made `extended` of the call: the outer
\* except, the break or the return after the last iteration, or the sleep.
AfterIteration(call, extended, escaped, break) ==
  IF escaped
  THEN [extended EXCEPT !.search_pc = OnException.pc,
                        !.result = OnException.result]
  ELSE IF break \/ call.poll_count + 1 >= max_polls(call.timeout)
  THEN [extended EXCEPT !.search_pc = "returned",
                        !.result = Returned(extended)]
  ELSE [extended EXCEPT !.poll_count = call.poll_count + 1]

\* An iteration in which the GET found the backend holding `held` responses
\* and returned responses_data.
Fetching(call, held, responses_data) ==
  IF Len(responses_data) - Len(call.all_responses) > 0
  THEN AfterIteration(
         call,
         AfterResults(call, held, responses_data,
                      NewResponses(responses_data, call.all_responses),
                      process_search_responses(
                        NewResponses(responses_data, call.all_responses))),
         Escapes(call.progress_callback),
         Enough(responses_data))
  ELSE AfterIteration(call, AfterGet(call, held), FALSE, FALSE)

\* One iteration of the poll loop of a call; the backend gathered k
\* responses for it since the last one.
Iteration(call, k, got) ==
  Fetching(call, Min(call.backend + k, MaxResponses),
           FetchedFor(call.search_id, got, Min(call.backend + k, MaxResponses)))

\* The first call becomes `call`.
Becomes(call) ==
  /\ search_pc' = call.search_pc
  /\ timeout' = call.timeout
  /\ progress_callback' = call.progress_callback
  /\ poll_count' = call.poll_count
  /\ all_responses' = call.all_responses
  /\ all_tracks' = call.all_tracks
  /\ all_albums' = call.all_albums
  /\ backend' = call.backend
  /\ fetches' = call.fetches
  /\ batches' = call.batches
  /\ delivered' = call.delivered
  /\ result' = call.result

\* A caller calls search(query, t, cb).
Search(t, cb, sub) ==
  /\ search_pc = "idle"
  /\ Becomes(Called(FirstCall, t, cb, sub))
  /\ UNCHANGED <<stop_requested, second>>
  /\ UNCHANGED <<plex, pure>>

\* One iteration of the poll loop; the backend gathered k responses since
\* the last one.
Poll(k, got) ==
  /\ search_pc = "polling"
  /\ Becomes(Iteration(FirstCall, k, got))
  /\ UNCHANGED <<stop_requested, second>>
  /\ UNCHANGED <<plex, pure>>

\* The call makes one iteration of its loop: the GET fails, or it brings
\* the list.
PollOnce ==
  \/ \E k \in Growth : Poll(k, "nothing")
  \/ \E k \in Growth : Poll(k, "list")

NextSearch ==
  \/ \E t \in Timeouts, cb \in ProgressCallbacks, sub \in Submissions :
       Search(t, cb, sub)
  \/ PollOnce

SearchSpec == Init /\ [][NextSearch]_vars

\* One iteration of the poll loop in which the fetched list has new
\* entries and one of them is not what _process_search_responses expects
\* (a response that is no object, files or a filename that is null): the
\* exception raised while processing reaches the outer `except`.
PollRaises(k) ==
  /\ search_pc = "polling"
  /\ LET held == Min(backend + k, MaxResponses)
         responses_data == Fetched("list", held)
     IN /\ Len(responses_data) - Len(all_responses) > 0
        /\ backend' = held
        /\ fetches' = fetches + 1
        /\ all_responses' = responses_data
        /\ batches' = Append(batches, NewResponses(responses_data, all_responses))
        /\ search_pc' = OnException.pc
        /\ result' = OnException.result
  /\ UNCHANGED <<timeout, progress_callback, poll_count, all_tracks,
                 all_albums, delivered, stop_requested, second>>
  /\ UNCHANGED <<plex, pure>>

\* search() against a backend that may also send malformed responses.
NextFaulty ==
  \/ NextSearch
  \/ \E k \in Growth : PollRaises(k)

FaultySearchSpec == Init /\ [][NextFaulty]_vars

\* The caller's SearchThread.stop(): it sets the thread's flag, which
\* search() is not given and does not read.
Stop ==
  /\ ~stop_requested
  /\ stop_requested' = TRUE
  /\ UNCHANGED <<search_pc, timeout, progress_callback, poll_count,
                 all_responses, all_tracks, all_albums, backend, fetches,
                 batches, delivered, result, second>>
  /\ UNCHANGED <<plex, pure>>

\* search() under a caller that may ask its search thread to stop.
NextStoppable ==
  \/ NextSearch
  \/ Stop

StoppableSearchSpec == Init /\ [][NextStoppable]_vars

\* Locals that are the client's attributes: a call starts from the lists
\* the other call has built.
SharedLocals(call, other) ==
  [call EXCEPT !.all_responses = other.all_responses,
               !.all_tracks = other.all_tracks,
               !.all_albums = other.all_albums]

\* all_responses, all_tracks and all_albums are locals of the coroutine,
\* created at each call: a call works on its own, whatever the other has.
OwnLocals(call, other) == call

\* A caller calls search() a second time on the same client.
SearchSecond(t, cb, sub) ==
  /\ second.search_pc = "idle"
  /\ second' = Called(OwnLocals(second, FirstCall), t, cb, sub)
  /\ UNCHANGED <<search_pc, timeout, progress_callback, poll_count,
                 all_responses, all_tracks, all_albums, backend, fetches,
                 batches, delivered, result, stop_requested>>
  /\ UNCHANGED <<plex, pure>>

\* One iteration of the poll loop of the second call.
PollSecond(k, got) ==
  /\ second.search_pc = "polling"
  /\ second' = Iteration(OwnLocals(second, FirstCall), k, got)
  /\ UNCHANGED <<search_pc, timeout, progress_callback, poll_count,
                 all_responses, all_tracks, all_albums, backend, fetches,
                 batches, delivered, result, stop_requested>>
  /\ UNCHANGED <<plex, pure>>

\* What the backend gathers between two polls of two concurrent searches.
GrowthOfTwo == {1, 15}

\* Two search() calls on one client, each with a callback and a budget of
\* three polls, their iterations interleaved in any order.
NextTwoSearches ==
  \/ Search(MaxTimeout - 1, "returns", "id")
  \/ SearchSecond(MaxTimeout - 1, "raises", "id")
  \/ \E k \in GrowthOfTwo, got \in {"nothing", "list"} : Poll(k, got)
  \/ \E k \in GrowthOfTwo, got \in {"nothing", "list"} : PollSecond(k, got)

TwoSearchesSpec == Init /\ [][NextTwoSearches]_vars

\* The scheduler runs the call: a search that is polling goes on with its
\* loop.
FairSearchSpec ==
  /\ SearchSpec
  /\ WF_vars(PollOnce)

(***************************************************************************)
(* Properties of search().                                                 *)
(***************************************************************************)
\* The lists of a list of lists, one after the other.
RECURSIVE Flattened(_)
Flattened(lists) ==
  IF lists = <<>> THEN <<>> ELSE Head(lists) \o Flattened(Tail(lists))

\* What _process_search_responses made of each batch, batch after batch:
\* the tracks (which = 1) or the albums (which = 2).
RECURSIVE Results(_, _)
Results(bs, which) ==
  IF bs = <<>> THEN <<>>
  ELSE process_search_responses(Head(bs))[which] \o Results(Tail(bs), which)

\* Two lists hold the same items, each as many times.
SameItems(a, b) ==
  /\ Len(a) = Len(b)
  /\ \A i \in 1..Len(a) :
       Cardinality({j \in 1..Len(a) : a[j] = a[i]})
         = Cardinality({j \in 1..Len(b) : b[j] = a[i]})

\* The list is in descending order of quality_score.
Descending(list) ==
  \A i \in 1..(Len(list) - 1) :
    quality_score(list[i]) >= quality_score(list[i + 1])

\* C17: a poll that fetches a list of EarlyStop responses or more is the
\* last one: the call returns with that poll, having processed the list
\* up to its end, and returns the lists accumulated with it; a call that
\* has returned fetches nothing more.
EarlyTermination ==
  /\ [](Len(all_responses) >= EarlyStop => search_pc = "returned")
  /\ [][/\ \A k \in Growth :
             (/\ search_pc = "polling"
              /\ Min(backend + k, MaxResponses) >= EarlyStop
              /\ Poll(k, "list")) =>
               /\ search_pc' = "returned"
               /\ fetches' = fetches + 1
               /\ Len(all_responses') = Min(backend + k, MaxResponses)
               /\ Flattened(batches') = all_responses'
               /\ result' = <<all_tracks', all_albums'>>
        /\ search_pc = "returned" => fetches' = fetches]_vars

\* The call returned on reaching EarlyStop responses in its second batch,
\* with polls left to make.
StoppedEarly ==
  /\ search_pc = "returned"
  /\ Len(all_responses) >= EarlyStop
  /\ Len(batches) >= 2
  /\ poll_count + 1 < (2 * timeout) \div 3
  /\ result = <<all_tracks, all_albums>>
  /\ Len(result[1]) > 0

\* C18: the response list is fetched at most floor(timeout / 1.5) times,
\* whatever the backend does, and a call that is polling returns.
FetchesBounded ==
  /\ [](fetches <= (2 * timeout) \div 3)
  /\ [](search_pc = "polling" => fetches < (2 * timeout) \div 3)
  /\ (search_pc = "polling") ~> (search_pc = "returned")

\* The call returned after using its whole budget of polls on a backend
\* that had nothing or whose fetches failed.
BudgetUsedUp ==
  /\ search_pc = "returned"
  /\ fetches = (2 * timeout) \div 3
  /\ fetches >= 3
  /\ all_responses = <<>>

\* C19: every response seen was given to _process_search_responses exactly
\* once, in the order of the backend's list, and the cumulative lists hold
\* what was made of each batch, each item once.
DeltaOnly ==
  /\ Flattened(batches) = all_responses
  /\ \A i, j \in 1..Len(all_responses) :
       all_responses[i] = all_responses[j] => i = j
  /\ SameItems(all_tracks, Results(batches, 1))
  /\ SameItems(all_albums, Results(batches, 2))
  /\ NoDuplicates(all_tracks)
  /\ NoDuplicates(all_albums)

\* Three batches were processed and tracks and albums accumulated.
ThreeBatches ==
  /\ Len(batches) >= 3
  /\ Len(all_tracks) >= 2
  /\ Len(all_albums) >= 2

\* C20: the lists passed to the progress callback are the cumulative lists
\* in descending order of quality_score, the third argument is the number
\* of responses seen so far, and the lists returned are in that order too.
SortedAndCounted ==
  /\ \A k \in 1..Len(delivered) :
       /\ Descending(delivered[k].tracks)
       /\ Descending(delivered[k].albums)
  /\ delivered # <<>> =>
       /\ delivered[Len(delivered)].tracks = all_tracks
       /\ delivered[Len(delivered)].albums = all_albums
       /\ delivered[Len(delivered)].count = Len(all_responses)
  /\ search_pc = "returned" =>
       /\ Descending(result[1])
       /\ Descending(result[2])

\* The callback was called twice and the call returned; in the lists a
\* result of a later response stands before a lower-scored one of an
\* earlier response.
DeliveredSorted ==
  /\ search_pc = "returned"
  /\ Len(delivered) >= 2
  /\ result = <<delivered[Len(delivered)].tracks, delivered[Len(delivered)].albums>>
  /\ \E i, j \in 1..Len(all_tracks) :
       /\ i < j
       /\ all_tracks[i].response > all_tracks[j].response
       /\ quality_score(all_tracks[i]) > quality_score(all_tracks[j])
  /\ \E i, j \in 1..Len(all_albums) :
       /\ i < j
       /\ all_albums[i].tracks[1].response > all_albums[j].tracks[1].response
       /\ quality_score(all_albums[i]) > quality_score(all_albums[j])

\* C21: with a progress callback that raises, every batch is still
\* delivered, a poll that neither reaches EarlyStop nor is the last one is
\* followed by the next, the cumulative lists are what was delivered last,
\* and the call returns them.
CallbackErrorIsolated ==
  /\ [](progress_callback = "raises" =>
          /\ Len(delivered) = Len(batches)
          /\ delivered # <<>> =>
               /\ delivered[Len(delivered)].tracks = all_tracks
               /\ delivered[Len(delivered)].albums = all_albums
          /\ search_pc = "returned" => result = <<all_tracks, all_albums>>)
  /\ [][(/\ progress_callback = "raises"
         /\ delivered' # delivered
         /\ Len(all_responses') < EarlyStop
         /\ poll_count + 1 < (2 * timeout) \div 3) =>
          /\ search_pc' = "polling"
          /\ poll_count' = poll_count + 1
          /\ SameItems(all_tracks',
                       all_tracks \o process_search_responses(batches'[Len(batches')])[1])]_vars

\* The callback raised at three batches and the call returned what it had
\* accumulated.
ReturnedDespiteRaises ==
  /\ progress_callback = "raises"
  /\ search_pc = "returned"
  /\ Len(delivered) >= 3
  /\ result = <<all_tracks, all_albums>>
  /\ Len(all_tracks) >= 2 /\ Len(all_albums) >= 1

\* C22: search() never raises.  A call whose submission is not made, fails
\* or brings no search id returns two empty lists without any poll; a call
\* in which processing raises returns two empty lists; a call that has
\* returned does nothing more.
NeverRaises ==
  /\ [](search_pc \in {"idle", "polling", "returned"})
  /\ [][/\ \A t \in Timeouts, cb \in ProgressCallbacks, sub \in Submissions :
             (sub # "id" /\ Search(t, cb, sub)) =>
               /\ search_pc' = "returned"
               /\ result' = <<<<>>, <<>>>>
               /\ fetches' = 0
        /\ \A k \in Growth :
             PollRaises(k) =>
               /\ search_pc' = "returned"
               /\ result' = <<<<>>, <<>>>>
        /\ search_pc = "returned" => UNCHANGED <<fetches, result>>]_vars

\* Processing raised after results had been accumulated, and the call
\* returned two empty lists.
ReturnedEmptyOnError ==
  /\ search_pc = "returned"
  /\ result = <<<<>>, <<>>>>
  /\ all_tracks # <<>>
  /\ Len(batches) >= 2

\* C23: once the caller has set the stop flag, the backend is polled no
\* more and the loop ends: the call returns at its next step.
StopEndsPolling ==
  [][stop_requested =>
       /\ fetches' = fetches
       /\ search_pc = "polling" => search_pc' = "returned"]_vars

\* The ids of the responses the backend holds for each search.
ResponsesOf ==
  [id \in {1, 2} |->
     {FetchedFor(id, "list", MaxResponses)[i] : i \in 1..MaxResponses}]

\* Every result of the lists comes from the responses to search id.
DerivedFrom(tracks, albums, id) ==
  /\ \A i \in 1..Len(tracks) : tracks[i].response \in ResponsesOf[id]
  /\ \A i \in 1..Len(albums) :
       \A k \in 1..Len(albums[i].tracks) :
         albums[i].tracks[k].response \in ResponsesOf[id]

\* What a call holds, passes to its callback and returns comes from the
\* responses to its own search, and its count is that of its own list.
Isolated(call) ==
  /\ call.all_responses
       = FetchedFor(call.search_id, "list", Len(call.all_responses))
  /\ Len(call.all_responses) <= call.backend
  /\ DerivedFrom(call.all_tracks, call.all_albums, call.search_id)
  /\ \A d \in 1..Len(call.delivered) :
       DerivedFrom(call.delivered[d].tracks, call.delivered[d].albums,
                   call.search_id)
  /\ call.delivered # <<>> =>
       call.delivered[Len(call.delivered)].count = Len(call.all_responses)
  /\ (call.search_pc = "returned" /\ call.result # <<>>) =>
       DerivedFrom(call.result[1], call.result[2], call.search_id)

\* C24: two concurrent search() calls on one client share no accumulator:
\* each holds, delivers and returns only results of the responses to its
\* own search, counts its own responses, and a step of one leaves the
\* other's state as it is.
SessionsIsolated ==
  /\ [](Isolated(FirstCall) /\ Isolated(second))
  /\ [][/\ second' # second => FirstCall' = FirstCall
        /\ FirstCall' # FirstCall => second' = second]_vars

\* Both calls are in their loops, each with two batches processed, the
\* two having seen different numbers of responses.
BothPolling ==
  /\ search_pc = "polling"
  /\ second.search_pc = "polling"
  /\ Len(batches) = 2
  /\ Len(second.batches) = 2
  /\ Len(all_responses) # Len(second.all_responses)
  /\ all_tracks # <<>>
  /\ second.all_tracks # <<>>

(***************************************************************************)
(* Part 3: functions applied on their own.                                 *)
(*                                                                         *)
(* The arguments are chosen at the start; the one step applies the         *)
(* function fn to args and keeps what it returned in value.                *)
(***************************************************************************)
Applied(f, v) ==
  /\ fn = "none"
  /\ fn' = f
  /\ value' = v
  /\ UNCHANGED <<args, plex, srch>>

(***************************************************************************)
(* _process_search_responses on a batch of responses.                      *)
(***************************************************************************)
MaxBatch == 3    \* the most responses in a batch

\* The responses a batch is made of: each peer answers twice.
BatchIds == 1..(2 * Len(Peers))

\* The batches: lists of different responses, in any order.
Batches ==
  {b \in UNION {[1..n -> BatchIds] : n \in 0..MaxBatch} :
     \A i, j \in 1..Len(b) : i # j => b[i] # b[j]}

InitProcess ==
  /\ NoScan
  /\ NoSearch
  /\ fn = "none"
  /\ args \in Batches
  /\ value = <<>>

Process == Applied("_process_search_responses", process_search_responses(args))

ProcessSpec == InitProcess /\ [][Process]_vars

\* The member tracks of the albums, album after album.
Members(albums) ==
  Flattened(AsList([a \in 1..Len(albums) |-> albums[a].tracks]))

\* C25: for every batch of responses, the individual tracks together with
\* the member tracks of the albums are the parsed audio tracks, each of
\* them once: none is left out of both lists, none is in both or twice.
Partition ==
  fn = "_process_search_responses" =>
    SameItems(value[1] \o Members(value[2]), ParsedTracks(args))

\* The items of a list.
Items(list) == {list[i] : i \in 1..Len(list)}

\* The parsed tracks grouped with track t: same peer, same album path.
GroupOf(t, tracks) ==
  {j \in 1..Len(tracks) : AlbumKey(tracks[j]) = AlbumKey(t)}

\* C26: every emitted album has two member tracks or more, a track_count
\* that is the number of its members, and members that are all of the
\* album's peer and in the album's directory; a file that is alone in its
\* group is in no album and is one of the individual tracks.
AlbumsWellFormed ==
  fn = "_process_search_responses" =>
    LET tracks == ParsedTracks(args)
        albums == value[2]
    IN /\ \A a \in 1..Len(albums) :
            /\ Len(albums[a].tracks) >= 2
            /\ albums[a].track_count = Len(albums[a].tracks)
            /\ \A t \in Items(albums[a].tracks) :
                 AlbumKey(t) = <<albums[a].username, albums[a].album_path>>
       /\ \A t \in Items(tracks) :
            (AlbumKey(t)[2] # None /\ Cardinality(GroupOf(t, tracks)) = 1) =>
              /\ t \notin Items(Members(albums))
              /\ t \in Items(value[1])

\* Why a filename cannot be grouped: it has no separator, the name of its
\* directory starts with '@', or that name has fewer than 2 characters.
Ungroupable(filename) ==
  IF filename.dir = <<>> THEN "no separator"
  ELSE IF Head(filename.dir) = "@" THEN "system directory"
  ELSE IF Len(filename.dir) < 2 THEN "short name"
  ELSE "groupable"

\* C27: a file whose path has no separator, or whose directory has a name
\* that starts with '@' or is shorter than 2 characters, is a member of no
\* album, however many such files the peer reports in the directory, and
\* is one of the individual tracks, once.
UngroupableStayIndividual ==
  fn = "_process_search_responses" =>
    \A t \in Items(ParsedTracks(args)) :
      Ungroupable(t.filename) # "groupable" =>
        /\ t \notin Items(Members(value[2]))
        /\ Cardinality({i \in 1..Len(value[1]) : value[1][i] = t}) = 1

\* A batch was processed in which, for each of the three reasons, a peer
\* reports two such files in one directory, and in which an album formed.
SeveralUngroupable ==
  /\ fn = "_process_search_responses"
  /\ value[2] # <<>>
  /\ \A why \in {"no separator", "system directory", "short name"} :
       \E t, u \in Items(value[1]) :
         /\ t # u
         /\ t.username = u.username
         /\ t.filename.dir = u.filename.dir
         /\ Ungroupable(t.filename) = why

(***************************************************************************)
(* quality_score of a track result and of an album result.  A bitrate of   *)
(* 0 is also the bitrate of a file that reports none: `if self.bitrate:`   *)
(* takes both the same way.                                                *)
(***************************************************************************)
MaxBitrate == 321   \* the highest bitrate reported, in kbps
MaxTracks  == 21    \* the most tracks in an album
MaxSlots   == 2     \* the most free upload slots a peer reports

Qualities == {"flac", "mp3", "ogg", "aac", "wma", "unknown"}
Speeds    == {100, 101}
Queues    == {10, 11}

TrackResults ==
  [result_type : {"track"}, quality : Qualities, bitrate : 0..MaxBitrate,
   free_upload_slots : 0..MaxSlots, upload_speed : Speeds,
   queue_length : Queues]

AlbumResults ==
  [result_type : {"album"}, dominant_quality : Qualities,
   track_count : 2..MaxTracks, free_upload_slots : 0..MaxSlots,
   upload_speed : Speeds, queue_length : Queues]

InitScore ==
  /\ NoScan
  /\ NoSearch
  /\ fn = "none"
  /\ args \in TrackResults \cup AlbumResults
  /\ value = <<>>

Score == Applied("quality_score", quality_score(args))

ScoreSpec == InitScore /\ [][Score]_vars

\* The sum the score is made of, in hundredths: the weight of the codec,
\* the adjustment for the bitrate (a track) or for the number of tracks (an
\* album), and the adjustments for the peer.
Sum(x) ==
  quality_weights(IF x.result_type = "track" THEN x.quality
                  ELSE x.dominant_quality)
  + (IF x.result_type = "track"
     THEN (IF x.bitrate = 0 THEN 0
           ELSE IF x.bitrate >= 320 THEN 20
           ELSE IF x.bitrate >= 256 THEN 10
           ELSE IF x.bitrate < 128 THEN -20
           ELSE 0)
     ELSE (IF x.track_count \in 8..20 THEN 10
           ELSE IF x.track_count > 20 THEN 5
           ELSE 0))
  + (IF x.free_upload_slots > 0 THEN 10 ELSE 0)
  + (IF x.upload_speed > 100 THEN 5 ELSE 0)
  - (IF x.queue_length > 10 THEN 10 ELSE 0)

\* C28: the score of a track is the smaller of 1.0 and the sum, and so never
\* above 1.0; the score of an album is the sum itself, without a cap (1.2
\* for a flac album of 10 tracks of a peer with a free slot).
CapAsymmetry ==
  fn = "quality_score" =>
    IF args.result_type = "track"
    THEN value = Min(Sum(args), 100) /\ value <= 100
    ELSE value = Sum(args)

\* C29: the score of a track is not lower than that of the same track with
\* a lower bitrate, nor than that of the same track with fewer free upload
\* slots.
ScoreMonotone ==
  (fn = "quality_score" /\ args.result_type = "track") =>
    /\ \A b \in 0..args.bitrate :
         quality_score([args EXCEPT !.bitrate = b]) <= value
    /\ \A k \in 0..args.free_upload_slots :
         quality_score([args EXCEPT !.free_upload_slots = k]) <= value

(***************************************************************************)
(* MatchResult.is_match (src/core/matching_engine.py).  Confidences are in *)
(* thousandths.                                                            *)
(***************************************************************************)
MaxConfidence == 1000   \* the highest confidence, 1.0

MatchThreshold == 800   \* 0.8

\* plex_track: None or a track of the library.
PlexTracks == {None, <<"plex_track">>}

\* match_type: the tiers calculate_match_confidence and find_best_match give.
MatchTypes ==
  {"perfect_match", "high_confidence", "medium_confidence", "low_confidence",
   "no_match", "no_candidates"}

MatchResults ==
  [plex_track : PlexTracks, confidence : 0..MaxConfidence,
   match_type : MatchTypes]

\* An acceptance that leaves the threshold itself out.
is_match_above(m) == m.plex_track # None /\ m.confidence > MatchThreshold

is_match(m) == m.plex_track # None /\ m.confidence >= MatchThreshold

InitMatch ==
  /\ NoScan
  /\ NoSearch
  /\ fn = "none"
  /\ args \in MatchResults
  /\ value = <<>>

IsMatch == Applied("is_match", is_match(args))

MatchSpec == InitMatch /\ [][IsMatch]_vars

\* C30: is_match is true exactly when a candidate is present and the
\* confidence is 0.8 or more, 0.8 included; it is the same whatever the
\* match tier.
AcceptanceGate ==
  fn = "is_match" =>
    /\ value = TRUE <=> (args.plex_track # None /\ args.confidence >= 800)
    /\ \A tier \in MatchTypes : is_match([args EXCEPT !.match_type = tier]) = value

\* A result with a candidate, confidence 0.8 and the lowest tier was
\* accepted.
AcceptedAtThreshold ==
  /\ fn = "is_match"
  /\ args.plex_track # None
  /\ args.confidence = 800
  /\ args.match_type = "low_confidence"
  /\ value = TRUE

(***************************************************************************)
(* MusicMatchingEngine.calculate_match_confidence.  What is compared is    *)
(* given by how the two cleaned titles stand to each other, the ratio      *)
(* SequenceMatcher gives for titles that differ, the artist score and the  *)
(* duration score.  Scores are in hundredths, confidences in thousandths.  *)
(***************************************************************************)
\* The scores: every twentieth, and the hundredth above each threshold.
Scores == {5 * k : k \in 0..20} \cup {76, 81, 86, 91, 96}

\* titles: the cleaned titles are the same non-empty string, different
\* non-empty strings, or one of them is empty.  Strings that differ have a
\* ratio below 1.0.
Comparisons ==
  [titles : {"same", "different", "empty"}, ratio : Scores \ {100},
   artist_score : Scores, duration_score : Scores]

\* similarity_score of the cleaned titles.
similarity_score(c) ==
  IF c.titles = "empty" THEN 0
  ELSE IF c.titles = "same" THEN 100
  ELSE c.ratio

\* No boost for equal titles.
NoBoost(c, confidence) == confidence

\* The boost for cleaned titles that are equal and not empty.
Boost(c, confidence) ==
  IF c.titles = "same" THEN Max(confidence, 850) ELSE confidence

\* A comparison that the bound itself passes.
AtOrAbove(score, bound) == score >= bound

\* score > bound
Above(score, bound) == score > bound

\* The tier of the scores.
MatchType(title_score, artist_score, duration_score) ==
  IF /\ Above(title_score, 95)
     /\ Above(artist_score, 90)
     /\ Above(duration_score, 90)
  THEN "perfect_match"
  ELSE IF Above(title_score, 85) /\ Above(artist_score, 80)
  THEN "high_confidence"
  ELSE IF Above(title_score, 75) THEN "medium_confidence"
  ELSE "low_confidence"

\* The confidence of the tier: max(confidence, 0.98) for perfect_match.
Raised(match_type, confidence) ==
  IF match_type = "perfect_match" THEN Max(confidence, 980) ELSE confidence

\* calculate_match_confidence: the pair (confidence, match_type).
calculate_match_confidence(c) ==
  << Raised(MatchType(similarity_score(c), c.artist_score, c.duration_score),
            Boost(c, 5 * similarity_score(c) + 3 * c.artist_score
                       + 2 * c.duration_score)),
     MatchType(similarity_score(c), c.artist_score, c.duration_score) >>

InitConfidence ==
  /\ NoScan
  /\ NoSearch
  /\ fn = "none"
  /\ args \in Comparisons
  /\ value = <<>>

Confidence ==
  Applied("calculate_match_confidence", calculate_match_confidence(args))

ConfidenceSpec == InitConfidence /\ [][Confidence]_vars

\* Half the title score, three tenths of the artist score and a fifth of
\* the duration score, in thousandths; the title score of an empty title
\* is 0.
Weighted(c) ==
  5 * (IF c.titles = "same" THEN 100
       ELSE IF c.titles = "different" THEN c.ratio
       ELSE 0)
  + 3 * c.artist_score + 2 * c.duration_score

\* C33: when the cleaned titles are equal and not empty the confidence is
\* 0.85 or more, whatever the artist and duration scores; when they differ
\* or are empty it is 0.5 title + 0.3 artist + 0.2 duration, unless the
\* tier is perfect_match.
ExactTitleBoost ==
  fn = "calculate_match_confidence" =>
    /\ args.titles = "same" => value[1] >= 850
    /\ (args.titles # "same" /\ value[2] # "perfect_match") =>
         value[1] = Weighted(args)

\* Equal titles with artist and duration scores of 0 got 0.85, above the
\* weighted sum of 0.5.
BoostedTo085 ==
  /\ fn = "calculate_match_confidence"
  /\ args.titles = "same"
  /\ args.artist_score = 0
  /\ args.duration_score = 0
  /\ value[1] = 850
  /\ Weighted(args) = 500

\* The tier as the claim gives it.
Tier(title, artist, duration) ==
  CASE title > 95 /\ artist > 90 /\ duration > 90 -> "perfect_match"
    [] ~(title > 95 /\ artist > 90 /\ duration > 90)
       /\ title > 85 /\ artist > 80 -> "high_confidence"
    [] ~(title > 95 /\ artist > 90 /\ duration > 90)
       /\ ~(title > 85 /\ artist > 80)
       /\ title > 75 -> "medium_confidence"
    [] OTHER -> "low_confidence"

\* C34: the tier is perfect_match when title > 0.95, artist > 0.9 and
\* duration > 0.9; else high_confidence when title > 0.85 and artist > 0.8;
\* else medium_confidence when title > 0.75; else low_confidence.  A score
\* on a boundary does not reach the higher tier, and the confidence of a
\* perfect_match is 0.98 or more.
TierAssignment ==
  fn = "calculate_match_confidence" =>
    /\ value[2] = Tier(similarity_score(args), args.artist_score,
                       args.duration_score)
    /\ similarity_score(args) <= 95 => value[2] # "perfect_match"
    /\ similarity_score(args) <= 85 => value[2] \notin {"perfect_match", "high_confidence"}
    /\ similarity_score(args) <= 75 => value[2] = "low_confidence"
    /\ args.artist_score <= 90 => value[2] # "perfect_match"
    /\ args.duration_score <= 90 => value[2] # "perfect_match"
    /\ args.artist_score <= 80 => value[2] \notin {"perfect_match", "high_confidence"}
    /\ value[2] = "perfect_match" => value[1] >= 980

\* A title score of exactly 0.95 with artist and duration scores of 1.0
\* got high_confidence, not perfect_match.
BoundaryStaysBelow ==
  /\ fn = "calculate_match_confidence"
  /\ args.titles = "different"
  /\ args.ratio = 95
  /\ args.artist_score = 100
  /\ args.duration_score = 100
  /\ value[2] = "high_confidence"

(***************************************************************************)
(* MusicMatchingEngine.find_best_match.  A candidate is given by how it    *)
(* compares with the source track, and is known by its place in the list.  *)
(* The result carries the number of confidences computed for it.           *)
(***************************************************************************)
MaxCandidates == 3   \* the most candidates in plex_tracks

Compared(t, r, a, d) ==
  [titles |-> t, ratio |-> r, artist_score |-> a, duration_score |-> d]

\* The candidates: two with nothing in common with the source track, two
\* of equal confidence and different tiers, one with the same title and
\* nothing else, one that agrees in everything.
Candidates ==
  { Compared("different", 0, 0, 0),
    Compared("empty", 0, 0, 0),
    Compared("different", 50, 50, 50),
    Compared("different", 80, 0, 50),
    Compared("same", 0, 0, 0),
    Compared("same", 0, 100, 100) }

CandidateLists == UNION {[1..n -> Candidates] : n \in 0..MaxCandidates}

\* The result for an empty list, were it that of a list without a match.
NoMatch ==
  [plex_track |-> None, confidence |-> 0, match_type |-> "no_match",
   computed |-> 0]

\* MatchResult(spotify_track, None, 0.0, "no_candidates")
NoCandidates ==
  [plex_track |-> None, confidence |-> 0, match_type |-> "no_candidates",
   computed |-> 0]

\* The loop from candidate i on, with `best` the best so far.
RECURSIVE BestFrom(_, _, _)
BestFrom(plex_tracks, i, best) ==
  IF i > Len(plex_tracks) THEN best
  ELSE BestFrom(plex_tracks, i + 1,
         IF calculate_match_confidence(plex_tracks[i])[1] > best.confidence
         THEN [plex_track |-> <<"plex_track", i>>,
               confidence |-> calculate_match_confidence(plex_tracks[i])[1],
               match_type |-> calculate_match_confidence(plex_tracks[i])[2],
               computed |-> best.computed + 1]
         ELSE [best EXCEPT !.computed = best.computed + 1])

find_best_match(plex_tracks) ==
  IF plex_tracks = <<>> THEN NoCandidates
  ELSE BestFrom(plex_tracks, 1,
                [plex_track |-> None, confidence |-> 0,
                 match_type |-> "no_match", computed |-> 0])

InitBestMatch ==
  /\ NoScan
  /\ NoSearch
  /\ fn = "none"
  /\ args \in CandidateLists
  /\ value = <<>>

FindBestMatch == Applied("find_best_match", find_best_match(args))

BestMatchSpec == InitBestMatch /\ [][FindBestMatch]_vars

\* C31: for a list that is not empty the result's candidate is a member of
\* the list whose confidence is the highest of all, the first of those in
\* the list, and the result's confidence and tier are the ones computed
\* for it; so also when every confidence is 0.0.
BestMatchIsFirstMaximum ==
  (fn = "find_best_match" /\ args # <<>>) =>
    \E i \in 1..Len(args) :
      /\ value.plex_track = <<"plex_track", i>>
      /\ \A j \in 1..Len(args) :
           calculate_match_confidence(args[j])[1]
             <= calculate_match_confidence(args[i])[1]
      /\ \A j \in 1..(i - 1) :
           calculate_match_confidence(args[j])[1]
             < calculate_match_confidence(args[i])[1]
      /\ value.confidence = calculate_match_confidence(args[i])[1]
      /\ value.match_type = calculate_match_confidence(args[i])[2]

\* C32: for an empty list the result has no candidate, confidence 0.0 and
\* tier no_candidates, so it is no match, and no confidence was computed.
EmptyListNoCandidates ==
  (fn = "find_best_match" /\ args = <<>>) =>
    /\ value.plex_track = None
    /\ value.confidence = 0
    /\ value.match_type = "no_candidates"
    /\ ~is_match(value)
    /\ value.computed = 0

\* find_best_match was called with an empty list and returned.
EmptyListMatched ==
  /\ fn = "find_best_match"
  /\ args = <<>>
  /\ value.match_type = "no_candidates"

(***************************************************************************)
(* MusicMatchingEngine.duration_similarity.  Durations are in ms; the      *)
(* score is the fraction <<numerator, denominator>>.                       *)
(***************************************************************************)
MaxSeconds == 40   \* the longest duration, in seconds

\* The durations: 0 for one that is missing, and every full second with
\* the millisecond before and after it.
Durations ==
  {0} \cup {1000 * k + e : k \in 1..MaxSeconds, e \in {-1, 0, 1}}

\* abs(duration1 - duration2)
Apart(duration1, duration2) ==
  IF duration1 >= duration2 THEN duration1 - duration2
  ELSE duration2 - duration1

\* A tolerance that leaves 5000 ms itself out.
StrictlyWithinTolerance(diff) == diff < 5000

\* abs(duration1 - duration2) <= 5000
WithinTolerance(diff) == diff <= 5000

duration_similarity(duration1, duration2) ==
  IF duration1 = 0 \/ duration2 = 0 THEN <<1, 2>>
  ELSE IF WithinTolerance(Apart(duration1, duration2)) THEN <<1, 1>>
  ELSE << Max(0, Max(duration1, duration2) - 5 * Apart(duration1, duration2)),
          Max(duration1, duration2) >>

InitDuration ==
  /\ NoScan
  /\ NoSearch
  /\ fn = "none"
  /\ args \in Durations \X Durations
  /\ value = <<>>

DurationSimilarity ==
  Applied("duration_similarity", duration_similarity(args[1], args[2]))

DurationSpec == InitDuration /\ [][DurationSimilarity]_vars

\* C35: the score is 0.5 when either duration is 0; 1.0 when both are not
\* 0 and are 5000 ms apart or less; otherwise the larger of 0 and
\* 1 - 5 |d1 - d2| / max(d1, d2), which is 0 exactly when the durations are
\* 20% of the longer one apart or more.  It is the same with the arguments
\* exchanged, and is within [0, 1].
DurationScore ==
  fn = "duration_similarity" =>
    LET d1 == args[1]
        d2 == args[2]
        diff == IF d1 >= d2 THEN d1 - d2 ELSE d2 - d1
        longer == IF d1 >= d2 THEN d1 ELSE d2
    IN /\ (d1 = 0 \/ d2 = 0) => 2 * value[1] = value[2]
       /\ (d1 # 0 /\ d2 # 0 /\ diff <= 5000) => value[1] = value[2]
       /\ (d1 # 0 /\ d2 # 0 /\ diff > 5000) =>
            /\ longer - 5 * diff >= 0 =>
                 value[1] * longer = (longer - 5 * diff) * value[2]
            /\ longer - 5 * diff < 0 => value[1] = 0
            /\ value[1] = 0 <=> 5 * diff >= longer
       /\ duration_similarity(d2, d1) = value
       /\ value[2] > 0
       /\ 0 <= value[1]
       /\ value[1] <= value[2]

\* Two durations more than 5000 ms and less than 20% apart got a score
\* strictly between 0 and 1.
PartlyPenalised ==
  /\ fn = "duration_similarity"
  /\ args[1] - args[2] > 5000
  /\ 0 < value[1]
  /\ value[1] < value[2]

(***************************************************************************)
(* Part 4: further properties of the scan controller.                      *)
(*                                                                         *)
(* The controller under clients that only call request_scan, at any time   *)
(* but between the locked block of _execute_scan and the remote call it    *)
(* leads to: a request made during a scan is made after that scan's        *)
(* trigger_library_scan call began.                                        *)
(***************************************************************************)
RequestNotBeforeTrigger ==
  /\ \A r \in Live : r.pc # "trigger"
  /\ RequestScan

NextLateRequests ==
  \/ RequestNotBeforeTrigger
  \/ \E r \in Live : ExecuteScan(r)
  \/ \E r \in Live : TriggerScan(r)
  \/ \E r \in Live : ResetScanState(r)
  \/ \E r \in Live : Expire(r)
  \/ \E r \in Live : PollLocked(r)
  \/ \E r \in Live : PollQuery(r)
  \/ \E r \in Live : ScanCompleted(r)
  \/ \E r \in Live : CopyCallbacks(r)
  \/ \E r \in Live : FinishCompletion(r)
  \/ Tick

LateRequestsSpec == InitRequests /\ [][NextLateRequests]_vars

\* The places of a thread that is still to do something: every place but
\* that of a Timer that has ended.
RunningPcs ==
  {"d_armed", "exec", "forced", "trigger", "reset", "p_armed", "poll",
   "query", "sc", "cbcopy", "cbrun", "after_cb"}

\* C36: no request is lost.  A request_scan made during a scan, after the
\* scan's trigger call, is followed by another trigger call: the controller
\* is never left with such a request, no scan in progress, and no Timer or
\* thread that could still make the call.
NoRequestLost ==
  reqInScan => (scan_in_progress \/ Number(threads, RunningPcs) > 0)

\* The scan of the controller is being triggered for the second time while a
\* thread that was started before it waits for its turn in _execute_scan.
SecondTriggerContended ==
  /\ triggerCount = 1
  /\ Number(threads, {"trigger"}) = 1
  /\ Number(threads, {"exec", "forced"}) > 0

\* C37: scans never overlap: at most one thread answers for a scan at any
\* time, and a thread gets to the trigger_library_scan call only from a
\* state in which no scan is in progress and no thread is triggering,
\* resetting, polling or completing an earlier one.
ScansNeverOverlap ==
  /\ [](Number(threads, ScanOwnerPcs) <= 1)
  /\ [][Number(threads', {"trigger"}) > Number(threads, {"trigger"}) =>
         /\ ~scan_in_progress
         /\ Number(threads, ScanOwnerPcs) = 0]_vars

\* A scan is in progress and get_status reports no timer, while a debounce
\* Timer that _timer no longer refers to is still waiting.
ScanWithUnreferencedTimer ==
  /\ get_status.scan_in_progress
  /\ ~get_status.timer_active
  /\ Number(threads, {"d_armed"}) > 0

\* C38: whenever get_status can be called, the scan_in_progress and
\* timer_active it returns are not both true.
StatesExclusive ==
  ~lock => ~(get_status.scan_in_progress /\ get_status.timer_active)

(***************************************************************************)
(* The controller under clients whose last call is shutdown: they call     *)
(* request_scan and force_scan, then shutdown, and nothing afterwards.     *)
(***************************************************************************)
RequestBeforeShutdown ==
  /\ callsLeft > 1
  /\ RequestScan

ForceBeforeShutdown ==
  /\ callsLeft > 1
  /\ ForceScan

ShutdownLast ==
  /\ callsLeft = 1
  /\ Shutdown

NextShutdown ==
  \/ RequestBeforeShutdown
  \/ ForceBeforeShutdown
  \/ ShutdownLast
  \/ \E r \in Live : ExecuteScan(r)
  \/ \E r \in Live : TriggerScan(r)
  \/ \E r \in Live : ResetScanState(r)
  \/ \E r \in Live : Expire(r)
  \/ \E r \in Live : PollLocked(r)
  \/ \E r \in Live : PollQuery(r)
  \/ \E r \in Live : ScanCompleted(r)
  \/ \E r \in Live : CopyCallbacks(r)
  \/ \E r \in Live : FinishCompletion(r)
  \/ Tick

ShutdownSpec == Init /\ [][NextShutdown]_vars

\* shutdown has returned and the clients call nothing any more.
ShutDown == callsLeft = 0

\* C39: once shutdown has returned, with no debounce Timer left waiting or
\* running and no trigger call in flight, and the clients calling nothing
\* afterwards, no trigger_library_scan call is made and no debounce Timer
\* is armed.
NothingAfterShutdown ==
  [][(ShutDown /\ Number(threads, {"d_armed", "exec", "forced", "trigger"}) = 0) =>
       /\ triggerCount' = triggerCount
       /\ Number(threads', {"d_armed"}) = 0]_vars

(***************************************************************************)
(* search(): what was delivered and what is returned.                      *)
(***************************************************************************)
\* The lists of the last invocation of the progress callback.
LastDelivered ==
  <<delivered[Len(delivered)].tracks, delivered[Len(delivered)].albums>>

\* A batch was fetched whose processing raised: it is the one batch that
\* was handed over without a delivery following it.
BatchRaised == Len(batches) > Len(delivered)

\* C40 as stated: whenever search() has returned after invoking the
\* progress callback, the pair it returns is the lists of the last
\* invocation, whatever happened on later polls.
DeliveredAreReturned ==
  (search_pc = "returned" /\ delivered # <<>>) => result = LastDelivered

\* search() has returned what it delivered last, two or more polls
\* after that delivery, none of which brought anything new.
ReturnedWhatWasDelivered ==
  /\ search_pc = "returned"
  /\ delivered # <<>>
  /\ LastDelivered[1] # <<>>
  /\ fetches >= Len(batches) + 2
  /\ result = LastDelivered

\* C40: whenever search() has returned after invoking the progress
\* callback, the pair it returns is the lists of the last invocation when
\* later polls failed, brought nothing new or the callback raised, and is
\* a pair of empty lists when the processing of a later batch raised.
DeliveredAreReturnedUnlessRaised ==
  (search_pc = "returned" /\ delivered # <<>>) =>
     IF BatchRaised THEN result = <<<<>>, <<>>>>
     ELSE result = LastDelivered

====
